---- MODULE Spec2Model ----
(***************************************************************************)
(* A model of the multiplayer falling-block server:                        *)
(*   - the board / piece engine          (packages/server/src/game/index.ts)*)
(*   - the GameManager (sessions, gravity loops, bots, socket handlers)     *)
(*   - the RoomManager (rooms, membership, stored per-member state,         *)
(*     garbage delivery, broadcasts)                                        *)
(* Every handler runs to completion (Node's single-threaded event loop), so *)
(* each handler is one action.  Handlers are written as functions from a    *)
(* world record (the fields of both managers) to a world record, composed   *)
(* in the order of the statements of the source.                            *)
(***************************************************************************)
EXTENDS Integers, Sequences, FiniteSets, TLC

\* ------------------------------------------------------------ constants

BOARD_WIDTH == 10
BOARD_HEIGHT == 20
MAX_PLAYERS_PER_ROOM == 4
INITIAL_GAME_SPEED == 800
INITIAL_DROP_INTERVAL == 800
LINES_PER_LEVEL == 10

SPEED_CURVE ==
  <<800, 717, 633, 550, 467, 383, 300, 217, 133, 100,
    83, 83, 83, 67, 67, 67, 50, 50, 50, 33, 33>>

PLAYING == "playing"
GAME_OVER == "game_over"

MOVE_LEFT == "move_left"
MOVE_RIGHT == "move_right"
MOVE_DOWN == "move_down"
ROTATE == "rotate"
DROP == "drop"
HOLD == "hold"

PlayerAction == {MOVE_LEFT, MOVE_RIGHT, MOVE_DOWN, ROTATE, DROP, HOLD}

TetrominoType == {"I", "O", "T", "L", "J", "S", "Z"}

\* ------------------------------------------------------------ engine

\* Shapes are sequences of rows; shape[y + 1][x + 1] is the source's shape[y][x].
TETROMINOES(type) ==
  CASE type = "I" -> << <<0, 0, 0, 0>>, <<1, 1, 1, 1>>, <<0, 0, 0, 0>>, <<0, 0, 0, 0>> >>
    [] type = "O" -> << <<1, 1>>, <<1, 1>> >>
    [] type = "T" -> << <<0, 1, 0>>, <<1, 1, 1>>, <<0, 0, 0>> >>
    [] type = "L" -> << <<0, 0, 1>>, <<1, 1, 1>>, <<0, 0, 0>> >>
    [] type = "J" -> << <<1, 0, 0>>, <<1, 1, 1>>, <<0, 0, 0>> >>
    [] type = "S" -> << <<0, 1, 1>>, <<1, 1, 0>>, <<0, 0, 0>> >>
    [] type = "Z" -> << <<1, 1, 0>>, <<0, 1, 1>>, <<0, 0, 0>> >>

\* A board is a function row -> column -> cell, rows 0..19 and columns 0..9.
EmptyRow == [x \in 0..(BOARD_WIDTH - 1) |-> 0]

createEmptyBoard == [y \in 0..(BOARD_HEIGHT - 1) |-> EmptyRow]

\* null for a piece field (heldPiece: Piece | null)
NoPiece == [type |-> "none", shape |-> <<>>, position |-> [x |-> 0, y |-> 0], rotation |-> 0]

\* Variant of createPiece: the piece spawns against the left wall.
createPieceAtLeft(type) ==
  [type |-> type,
   shape |-> TETROMINOES(type),
   position |-> [x |-> 0, y |-> 0],
   rotation |-> 0]

createPiece(type) ==
  [type |-> type,
   shape |-> TETROMINOES(type),
   position |-> [x |-> (BOARD_WIDTH - Len(TETROMINOES(type)[1])) \div 2, y |-> 0],
   rotation |-> 0]

\* Variant of getNextPiece: the new bag is put in front of the piece left over.
getNextPieceRefillsInFront(queue, bag) ==
  LET q == IF Len(queue) <= 1 THEN bag \o queue ELSE queue
  IN [piece |-> createPiece(Head(q)), updatedQueue |-> Tail(q)]

\* generatePieceBag returns any permutation of the seven kinds (Fisher-Yates
\* over Math.random); `bag` is the permutation drawn by this call.
\* Variant of getNextPiece: the queue is refilled while two entries are left.
getNextPieceRefillsEarly(queue, bag) ==
  LET q == IF Len(queue) <= 2 THEN queue \o bag ELSE queue
  IN [piece |-> createPiece(Head(q)), updatedQueue |-> Tail(q)]

getNextPiece(queue, bag) ==
  LET q == IF Len(queue) <= 1 THEN queue \o bag ELSE queue
  IN [piece |-> createPiece(Head(q)), updatedQueue |-> Tail(q)]

spawnPiece(queue, bag) == getNextPiece(queue, bag)

holdPiece(currentPiece, heldPiece, queue, bag) ==
  LET newHeldPiece == createPiece(currentPiece.type)
      nextPieceResult == getNextPiece(queue, bag)
  IN IF heldPiece # NoPiece
       THEN [newCurrentPiece |-> createPiece(heldPiece.type),
             newHeldPiece |-> newHeldPiece,
             updatedQueue |-> queue]
       ELSE [newCurrentPiece |-> nextPieceResult.piece,
             newHeldPiece |-> newHeldPiece,
             updatedQueue |-> nextPieceResult.updatedQueue]

isValidMove(piece, board) ==
  \A y \in 0..(Len(piece.shape) - 1) :
    \A x \in 0..(Len(piece.shape[y + 1]) - 1) :
      piece.shape[y + 1][x + 1] # 0 =>
        LET boardX == piece.position.x + x
            boardY == piece.position.y + y
        IN ~(\/ boardX < 0
             \/ boardX >= BOARD_WIDTH
             \/ boardY < 0
             \/ boardY >= BOARD_HEIGHT
             \/ (boardY >= 0 /\ board[boardY][boardX] # 0))

movePiece(piece, dx, dy) ==
  [piece EXCEPT !.position = [x |-> piece.position.x + dx, y |-> piece.position.y + dy]]

\* Variant of rotateMatrix: a quarter turn the other way.
rotateMatrixCounter(matrix) ==
  LET N == Len(matrix)
  IN [r \in 1..N |-> [c \in 1..N |-> matrix[c][N - r + 1]]]

\* result[j][N - 1 - i] = matrix[i][j]
rotateMatrix(matrix) ==
  LET N == Len(matrix)
  IN [r \in 1..N |-> [c \in 1..N |-> matrix[N - c + 1][r]]]

wallKickOffsets ==
  << [x |-> -1, y |-> 0], [x |-> 1, y |-> 0], [x |-> 0, y |-> -1],
     [x |-> -2, y |-> 0], [x |-> 2, y |-> 0] >>

\* Variant of rotatePiece: the kick one row up is tried before the sideways kicks.
rotatePieceUpFirst(piece, board) ==
  LET rotatedPiece == [piece EXCEPT !.shape = rotateMatrix(piece.shape),
                                    !.rotation = (piece.rotation + 1) % 4]
      offsets == << wallKickOffsets[3], wallKickOffsets[1], wallKickOffsets[2],
                    wallKickOffsets[4], wallKickOffsets[5] >>
      kicked(i) == movePiece(rotatedPiece, offsets[i].x, offsets[i].y)
      valid == {i \in 1..Len(offsets) : isValidMove(kicked(i), board)}
  IN IF isValidMove(rotatedPiece, board) THEN rotatedPiece
     ELSE IF valid # {} THEN kicked(CHOOSE i \in valid : \A j \in valid : i <= j)
     ELSE piece

rotatePiece(piece, board) ==
  LET rotatedPiece == [piece EXCEPT !.shape = rotateMatrix(piece.shape),
                                    !.rotation = (piece.rotation + 1) % 4]
      kicked(i) == movePiece(rotatedPiece, wallKickOffsets[i].x, wallKickOffsets[i].y)
      valid == {i \in 1..Len(wallKickOffsets) : isValidMove(kicked(i), board)}
  IN IF isValidMove(rotatedPiece, board) THEN rotatedPiece
     ELSE IF valid # {} THEN kicked(CHOOSE i \in valid : \A j \in valid : i <= j)
     ELSE piece

getPieceTypeValue(type) ==
  CASE type = "I" -> 1
    [] type = "O" -> 2
    [] type = "T" -> 3
    [] type = "L" -> 4
    [] type = "J" -> 5
    [] type = "S" -> 6
    [] type = "Z" -> 7
    [] OTHER -> 1

\* Whether the piece covers board cell (bx, by) with an occupied shape cell.
covers(piece, bx, by) ==
  LET y == by - piece.position.y
      x == bx - piece.position.x
  IN /\ y >= 0 /\ y < Len(piece.shape)
     /\ x >= 0 /\ x < Len(piece.shape[y + 1])
     /\ piece.shape[y + 1][x + 1] # 0

\* Variant of mergePieceToBoard: every kind is stored as 1.
mergePieceOneColour(piece, board) ==
  [by \in 0..(BOARD_HEIGHT - 1) |->
    [bx \in 0..(BOARD_WIDTH - 1) |->
      IF covers(piece, bx, by) THEN 1 ELSE board[by][bx]]]

mergePieceToBoard(piece, board) ==
  [by \in 0..(BOARD_HEIGHT - 1) |->
    [bx \in 0..(BOARD_WIDTH - 1) |->
      IF covers(piece, bx, by) THEN getPieceTypeValue(piece.type) ELSE board[by][bx]]]

rowComplete(row) == \A x \in 0..(BOARD_WIDTH - 1) : row[x] # 0

\* The loop of clearLines from row y on: a complete row is removed, the rows
\* above it move down, an empty row enters at the top and the same index is
\* tested again (y++ followed by the loop's y--).
RECURSIVE clearLinesFrom(_, _, _)
clearLinesFrom(newBoard, y, linesCleared) ==
  IF y < 0 THEN [newBoard |-> newBoard, linesCleared |-> linesCleared]
  ELSE IF rowComplete(newBoard[y])
    THEN clearLinesFrom(
           [row \in 0..(BOARD_HEIGHT - 1) |->
              IF row = 0 THEN EmptyRow
              ELSE IF row <= y THEN newBoard[row - 1]
              ELSE newBoard[row]],
           y, linesCleared + 1)
    ELSE clearLinesFrom(newBoard, y - 1, linesCleared)

\* Variant of the loop: after a removal it moves on to the row above without
\* testing the row that dropped into place.
RECURSIVE clearLinesFromSkipping(_, _, _)
clearLinesFromSkipping(newBoard, y, linesCleared) ==
  IF y < 0 THEN [newBoard |-> newBoard, linesCleared |-> linesCleared]
  ELSE IF rowComplete(newBoard[y])
    THEN clearLinesFromSkipping(
           [row \in 0..(BOARD_HEIGHT - 1) |->
              IF row = 0 THEN EmptyRow
              ELSE IF row <= y THEN newBoard[row - 1]
              ELSE newBoard[row]],
           y - 1, linesCleared + 1)
    ELSE clearLinesFromSkipping(newBoard, y - 1, linesCleared)

clearLinesSkipping(board) == clearLinesFromSkipping(board, BOARD_HEIGHT - 1, 0)

clearLines(board) == clearLinesFrom(board, BOARD_HEIGHT - 1, 0)

\* Variant of createGarbageLine: the row has no hole.
createGarbageLineSolid(holePosition) == [index \in 0..(BOARD_WIDTH - 1) |-> 8]

\* holePosition is Math.floor(Math.random() * BOARD_WIDTH), drawn by the caller.
createGarbageLine(holePosition) ==
  [index \in 0..(BOARD_WIDTH - 1) |-> IF index = holePosition THEN 0 ELSE 8]

\* Variant of addGarbageLines: the garbage overwrites the bottom rows and
\* nothing is pushed up.
addGarbageLinesOverwrites(board, lineCount, holes) ==
  [y \in 0..(BOARD_HEIGHT - 1) |->
    IF y + lineCount <= BOARD_HEIGHT - 1 THEN board[y]
    ELSE createGarbageLine(holes[y + lineCount - BOARD_HEIGHT + 1])]

\* Variant of addGarbageLines: no row is removed at the top.
addGarbageLinesGrows(board, lineCount, holes) ==
  LET height == Cardinality(DOMAIN board)
  IN [y \in 0..(height + lineCount - 1) |->
       IF y < height THEN board[y] ELSE createGarbageLine(holes[y - height + 1])]

\* holes[i] is the hole of the i-th generated line; splice(0, lineCount) drops
\* the top rows and the garbage lines are appended below.
addGarbageLines(board, lineCount, holes) ==
  LET height == Cardinality(DOMAIN board)
      kept == IF lineCount < height THEN height - lineCount ELSE 0
  IN [y \in 0..(kept + lineCount - 1) |->
       IF y < kept THEN board[y + lineCount] ELSE createGarbageLine(holes[y - kept + 1])]


\* ------------------------------------------------------------ state

VARIABLES
  games,        \* GameManager.games: identity -> GameState
  gameLoops,    \* GameManager.gameLoops: identity -> period of the interval stored for it
  intervals,    \* identity -> number of its setInterval gravity timers not yet cleared
  bots,         \* GameManager.bots: identities of the registered Bot instances
  botTimers,    \* bots whose moveInterval is live (Bot.moveInterval # null)
  rooms,        \* RoomManager.rooms: room id -> GameRoom
  playerRooms,  \* RoomManager.playerRooms: identity -> room id
  sockets,      \* io.sockets.sockets: the connected socket ids
  nextRoom,     \* the next fresh room id (uuidv4 never repeats)
  nextBot,      \* the next fresh bot id
  emitted,      \* the events the last handler emitted, in order
  last,         \* the last handler run: its name, arguments, acknowledgement, landing
  opsLeft,      \* room-level requests still to be served
  movesLeft,    \* player actions and timer firings still to be served
  probe         \* the last direct call of an engine function: arguments and result

vars == <<games, gameLoops, intervals, bots, botTimers, rooms, playerRooms, sockets,
          nextRoom, nextBot, emitted, last, opsLeft, movesLeft, probe>>

\* The fields of both managers as one record, threaded through a handler.
World ==
  [games |-> games, gameLoops |-> gameLoops, intervals |-> intervals,
   bots |-> bots, botTimers |-> botTimers,
   rooms |-> rooms, playerRooms |-> playerRooms, sockets |-> sockets,
   nextRoom |-> nextRoom, nextBot |-> nextBot, emitted |-> <<>>, ack |-> "none",
   created |-> 0, landed |-> FALSE, linesCleared |-> 0]

\* Map.delete / delete obj[key]
Without(f, k) == [x \in (DOMAIN f) \ {k} |-> f[x]]

\* Map.set / obj[key] = v
With(f, k, v) == [x \in (DOMAIN f) \cup {k} |-> IF x = k THEN v ELSE f[x]]

\* {...old, ...new}
Spread(old, new) ==
  [f \in (DOMAIN old) \cup (DOMAIN new) |-> IF f \in DOMAIN new THEN new[f] ELSE old[f]]

Emit(w, e) == [w EXCEPT !.emitted = Append(@, e)]

Min(a, b) == IF a < b THEN a ELSE b

\* ------------------------------------------------------------ RoomManager

createRoom(w) ==
  [w EXCEPT !.rooms = With(@, w.nextRoom,
                           [players |-> <<>>, gameStates |-> <<>>, isActive |-> FALSE]),
            !.nextRoom = @ + 1,
            !.created = w.nextRoom]

broadcastRoomUpdate(w, roomId) ==
  IF roomId \notin DOMAIN w.rooms THEN w
  ELSE Emit(w, [ev |-> "roomUpdate", room |-> roomId,
                players |-> w.rooms[roomId].players,
                isActive |-> w.rooms[roomId].isActive])

\* room.players.forEach: one gameStateUpdate per member with a live socket.
RECURSIVE broadcastTo(_, _, _, _)
broadcastTo(w, roomId, players, i) ==
  IF i > Len(players) THEN w
  ELSE IF players[i].id \notin w.sockets THEN broadcastTo(w, roomId, players, i + 1)
  ELSE broadcastTo(Emit(w, [ev |-> "gameStateUpdate", to |-> players[i].id, room |-> roomId]),
                   roomId, players, i + 1)

broadcastGameState(w, roomId) ==
  IF roomId \notin DOMAIN w.rooms THEN w
  ELSE broadcastTo(w, roomId, w.rooms[roomId].players, 1)

\* findIndex: the first index holding the identity, 0 when there is none.
findIndex(players, socketId) ==
  LET hits == {i \in 1..Len(players) : players[i].id = socketId}
  IN IF hits = {} THEN 0 ELSE CHOOSE i \in hits : \A j \in hits : i <= j

\* Variant of updatePlayerState: the new state is written over the copy of
\* every member of the room.
updatePlayerStateWholeRoom(w, socketId, newState) ==
  IF socketId \notin DOMAIN w.playerRooms THEN w
  ELSE LET roomId == w.playerRooms[socketId] IN
    IF roomId \notin DOMAIN w.rooms THEN w
    ELSE
      LET room == w.rooms[roomId]
          states == With(room.gameStates, socketId, <<>>)
          room2 == [room EXCEPT !.gameStates =
                      [m \in DOMAIN states |->
                         Spread(IF m \in DOMAIN room.gameStates
                                  THEN room.gameStates[m] ELSE <<>>, newState)]]
      IN broadcastGameState([w EXCEPT !.rooms[roomId] = room2], roomId)

updatePlayerState(w, socketId, newState) ==
  IF socketId \notin DOMAIN w.playerRooms THEN w
  ELSE LET roomId == w.playerRooms[socketId] IN
    IF roomId \notin DOMAIN w.rooms THEN w
    ELSE
      LET room == w.rooms[roomId]
          old == IF socketId \in DOMAIN room.gameStates
                   THEN room.gameStates[socketId] ELSE <<>>
          playerIndex == findIndex(room.players, socketId)
          players2 == IF playerIndex >= 1 /\ "player" \in DOMAIN newState
                        THEN [room.players EXCEPT ![playerIndex] = Spread(@, newState.player)]
                        ELSE room.players
          room2 == [room EXCEPT !.gameStates = With(@, socketId, Spread(old, newState)),
                                !.players = players2]
      IN broadcastGameState([w EXCEPT !.rooms[roomId] = room2], roomId)

\* GameState as joinRoom and addBotToRoom build it for the room: two pieces of
\* two separate fresh bags (kinds.cur, kinds.next) and an empty queue.
roomInitialState(player, kinds) ==
  [status |-> PLAYING,
   board |-> createEmptyBoard,
   currentPiece |-> createPiece(kinds.cur),
   nextPiece |-> createPiece(kinds.next),
   heldPiece |-> NoPiece,
   canHold |-> TRUE,
   pieceQueue |-> <<>>,
   player |-> player,
   dropInterval |-> INITIAL_DROP_INTERVAL]

newPlayer(id) == [id |-> id, score |-> 0, level |-> 0, lines |-> 0]

\* Variant of roomFull: the capacity test never fires.
roomNeverFull(room) == FALSE

roomFull(room) == Len(room.players) >= MAX_PLAYERS_PER_ROOM

\* Variant of joinRoom: the capacity test is left out.
joinRoomNoCapacity(w, socketId, roomId, kinds) ==
  IF roomId \notin DOMAIN w.rooms
    THEN [w EXCEPT !.ack = "false"]
  ELSE
    LET player == newPlayer(socketId)
        w1 == [w EXCEPT !.rooms[roomId].players = Append(@, player),
                        !.rooms[roomId].gameStates =
                           With(@, socketId, roomInitialState(player, kinds)),
                        !.playerRooms = With(@, socketId, roomId)]
    IN [broadcastRoomUpdate(w1, roomId) EXCEPT !.ack = "true"]

joinRoom(w, socketId, roomId, kinds) ==
  IF roomId \notin DOMAIN w.rooms \/ roomFull(w.rooms[roomId])
    THEN [w EXCEPT !.ack = "false"]
  ELSE
    LET player == newPlayer(socketId)
        w1 == [w EXCEPT !.rooms[roomId].players = Append(@, player),
                        !.rooms[roomId].gameStates =
                           With(@, socketId, roomInitialState(player, kinds)),
                        !.playerRooms = With(@, socketId, roomId)]
    IN [broadcastRoomUpdate(w1, roomId) EXCEPT !.ack = "true"]

addBotToRoom(w, roomId, botPlayer, kinds) ==
  IF roomId \notin DOMAIN w.rooms \/ roomFull(w.rooms[roomId])
    THEN [w EXCEPT !.ack = "false"]
  ELSE
    LET w1 == [w EXCEPT !.rooms[roomId].players = Append(@, botPlayer),
                        !.rooms[roomId].gameStates =
                           With(@, botPlayer.id, roomInitialState(botPlayer, kinds)),
                        !.playerRooms = With(@, botPlayer.id, roomId)]
    IN [broadcastRoomUpdate(w1, roomId) EXCEPT !.ack = "true"]

\* Variant of leaveRoom: the leaver's entry of the session map is kept.
leaveRoomKeepsSession(w, socketId) ==
  IF socketId \notin DOMAIN w.playerRooms THEN w
  ELSE LET roomId == w.playerRooms[socketId] IN
    IF roomId \notin DOMAIN w.rooms THEN w
    ELSE
      LET room == w.rooms[roomId]
          players2 == SelectSeq(room.players, LAMBDA p : p.id # socketId)
          room2 == [room EXCEPT !.players = players2]
          w1 == [w EXCEPT !.playerRooms = Without(@, socketId)]
      IN IF Len(players2) = 0
           THEN [w1 EXCEPT !.rooms = Without(w.rooms, roomId)]
           ELSE broadcastRoomUpdate([w1 EXCEPT !.rooms[roomId] = room2], roomId)

leaveRoom(w, socketId) ==
  IF socketId \notin DOMAIN w.playerRooms THEN w
  ELSE LET roomId == w.playerRooms[socketId] IN
    IF roomId \notin DOMAIN w.rooms THEN w
    ELSE
      LET room == w.rooms[roomId]
          players2 == SelectSeq(room.players, LAMBDA p : p.id # socketId)
          room2 == [room EXCEPT !.players = players2,
                                !.gameStates = Without(@, socketId)]
          w1 == [w EXCEPT !.playerRooms = Without(@, socketId)]
      IN IF Len(players2) = 0
           THEN [w1 EXCEPT !.rooms = Without(w.rooms, roomId)]
           ELSE broadcastRoomUpdate([w1 EXCEPT !.rooms[roomId] = room2], roomId)

getPlayerRoom(w, socketId) ==
  IF socketId \in DOMAIN w.playerRooms /\ w.playerRooms[socketId] \in DOMAIN w.rooms
    THEN w.playerRooms[socketId] ELSE 0

setRoomActive(w, roomId, isActive) ==
  IF roomId \notin DOMAIN w.rooms THEN [w EXCEPT !.ack = "false"]
  ELSE [broadcastRoomUpdate([w EXCEPT !.rooms[roomId].isActive = isActive], roomId)
          EXCEPT !.ack = "true"]

calculateGarbageLines(linesCleared) ==
  CASE linesCleared = 1 -> 0
    [] linesCleared = 2 -> 1
    [] linesCleared = 3 -> 2
    [] linesCleared = 4 -> 4
    [] OTHER -> 0

\* One iteration of room.players.forEach in sendGarbageToOpponents.
garbageToPlayer(w, roomId, senderId, playerId, garbageToSend, holes) ==
  IF playerId = senderId THEN w
  ELSE IF playerId \notin DOMAIN w.rooms[roomId].gameStates THEN w
  ELSE IF w.rooms[roomId].gameStates[playerId].status # PLAYING THEN w
  ELSE
    LET opponentState == w.rooms[roomId].gameStates[playerId]
        updatedBoard == addGarbageLines(opponentState.board, garbageToSend, holes)
        w1 == [w EXCEPT !.rooms[roomId].gameStates[playerId].board = updatedBoard]
        w2 == updatePlayerState(w1, playerId, [board |-> updatedBoard])
    IN Emit(w2, [ev |-> "receiveGarbage", to |-> playerId, lineCount |-> garbageToSend,
                 from |-> senderId])

RECURSIVE garbageLoop(_, _, _, _, _, _, _)
garbageLoop(w, roomId, senderId, players, i, garbageToSend, holes) ==
  IF i > Len(players) THEN w
  ELSE garbageLoop(garbageToPlayer(w, roomId, senderId, players[i].id, garbageToSend, holes),
                   roomId, senderId, players, i + 1, garbageToSend, holes)

sendGarbageToOpponents(w, roomId, senderId, lineCount, holes) ==
  IF roomId \notin DOMAIN w.rooms THEN w
  ELSE LET garbageToSend == calculateGarbageLines(lineCount) IN
    IF garbageToSend = 0 THEN w
    ELSE garbageLoop(w, roomId, senderId, w.rooms[roomId].players, 1, garbageToSend, holes)


\* ------------------------------------------------------------ GameManager

getScoreMultiplier(linesCleared) ==
  CASE linesCleared = 1 -> 40
    [] linesCleared = 2 -> 100
    [] linesCleared = 3 -> 300
    [] linesCleared = 4 -> 1200
    [] OTHER -> 0

getDropInterval(level) == SPEED_CURVE[Min(level, Len(SPEED_CURVE) - 1) + 1]

\* setInterval: one more live timer of the identity
setInterval(live, socketId) ==
  With(live, socketId, IF socketId \in DOMAIN live THEN live[socketId] + 1 ELSE 1)

\* clearInterval on a live timer of the identity
clearInterval(live, socketId) ==
  IF socketId \notin DOMAIN live THEN live
  ELSE IF live[socketId] = 1 THEN Without(live, socketId)
  ELSE With(live, socketId, live[socketId] - 1)

\* Variant of stopGameLoop: the entry is deleted but its timer is not cleared.
stopGameLoopForgets(w, socketId) ==
  IF socketId \in DOMAIN w.gameLoops
    THEN [w EXCEPT !.gameLoops = Without(@, socketId)]
    ELSE w

stopGameLoop(w, socketId) ==
  IF socketId \in DOMAIN w.gameLoops
    THEN [w EXCEPT !.intervals = clearInterval(@, socketId),
                   !.gameLoops = Without(@, socketId)]
    ELSE w

startGameLoop(w, socketId) ==
  LET w1 == stopGameLoop(w, socketId) IN
  IF socketId \notin DOMAIN w1.games THEN w1
  ELSE LET dropInterval == getDropInterval(w1.games[socketId].player.level)
       IN [w1 EXCEPT !.games[socketId].dropInterval = dropInterval,
                     !.intervals = setInterval(@, socketId),
                     !.gameLoops = With(@, socketId, dropInterval)]

\* Variant of updateGameSpeed: the new interval is stored but the running
\* timer keeps its old period.
updateGameSpeedKeepsTimer(w, socketId) ==
  IF socketId \notin DOMAIN w.games THEN w
  ELSE [w EXCEPT !.games[socketId].dropInterval =
                    getDropInterval(w.games[socketId].player.level)]

updateGameSpeed(w, socketId) ==
  IF socketId \notin DOMAIN w.games THEN w
  ELSE LET newDropInterval == getDropInterval(w.games[socketId].player.level) IN
    IF newDropInterval # w.games[socketId].dropInterval
      THEN [stopGameLoop(w, socketId)
              EXCEPT !.games[socketId].dropInterval = newDropInterval,
                     !.intervals = setInterval(@, socketId),
                     !.gameLoops = With(Without(w.gameLoops, socketId),
                                        socketId, newDropInterval)]
      ELSE w

initializeGame(w, socketId, bag) ==
  LET first == spawnPiece(<<>>, bag)
      second == spawnPiece(first.updatedQueue, bag)
      gameState == [status |-> PLAYING,
                    board |-> createEmptyBoard,
                    currentPiece |-> first.piece,
                    nextPiece |-> second.piece,
                    heldPiece |-> NoPiece,
                    canHold |-> TRUE,
                    pieceQueue |-> second.updatedQueue,
                    player |-> newPlayer(socketId),
                    dropInterval |-> INITIAL_GAME_SPEED]
      w1 == startGameLoop([w EXCEPT !.games = With(@, socketId, gameState)], socketId)
  IN updatePlayerState(w1, socketId, w1.games[socketId])

\* Variant of checkGameOver: the new piece is never tested.
checkGameOverNever(w, socketId) == [over |-> FALSE, w |-> w]

checkGameOver(w, socketId) ==
  IF socketId \notin DOMAIN w.games \/ w.games[socketId].currentPiece = NoPiece
    THEN [over |-> FALSE, w |-> w]
  ELSE IF ~isValidMove(w.games[socketId].currentPiece, w.games[socketId].board)
    THEN LET w1 == stopGameLoop([w EXCEPT !.games[socketId].status = GAME_OVER], socketId)
         IN [over |-> TRUE, w |-> updatePlayerState(w1, socketId, w1.games[socketId])]
    ELSE [over |-> FALSE, w |-> w]

\* Variant of landingScore: the level is not recomputed.
landingScoreKeepsLevel(w, socketId, linesCleared, holes) ==
  LET player == w.games[socketId].player
      w1 == [w EXCEPT !.games[socketId].player.lines = player.lines + linesCleared,
                      !.games[socketId].player.score =
                         player.score + getScoreMultiplier(linesCleared) * (player.level + 1)]
      roomId == getPlayerRoom(w1, socketId)
  IN IF linesCleared > 1 /\ roomId # 0
       THEN sendGarbageToOpponents(w1, roomId, socketId, linesCleared - 1, holes)
       ELSE w1

\* The score / level / garbage block of handlePieceLanding (linesCleared > 0).
landingScore(w, socketId, linesCleared, holes) ==
  LET player == w.games[socketId].player
      lines == player.lines + linesCleared
      score == player.score + getScoreMultiplier(linesCleared) * (player.level + 1)
      newLevel == lines \div LINES_PER_LEVEL
      w1 == [w EXCEPT !.games[socketId].player.lines = lines,
                      !.games[socketId].player.score = score]
      w2 == IF newLevel > player.level
              THEN updateGameSpeed([w1 EXCEPT !.games[socketId].player.level = newLevel],
                                   socketId)
              ELSE w1
      roomId == getPlayerRoom(w2, socketId)
  IN IF linesCleared > 1 /\ roomId # 0
       THEN sendGarbageToOpponents(w2, roomId, socketId, linesCleared - 1, holes)
       ELSE w2

\* Variant of handlePieceLanding: the new piece in hand is the one just drawn
\* and the preview stays.
handlePieceLandingSkipsPreview(w, socketId, bag, holes) ==
  IF socketId \notin DOMAIN w.games \/ w.games[socketId].currentPiece = NoPiece THEN w
  ELSE
    LET gameState == w.games[socketId]
        updatedBoard == mergePieceToBoard(gameState.currentPiece, gameState.board)
        cleared == clearLines(updatedBoard)
        w1 == [w EXCEPT !.games[socketId].board = cleared.newBoard,
                        !.landed = TRUE,
                        !.linesCleared = cleared.linesCleared]
        w2 == IF cleared.linesCleared > 0
                THEN landingScore(w1, socketId, cleared.linesCleared, holes)
                ELSE w1
        spawned == spawnPiece(w2.games[socketId].pieceQueue, bag)
        w3 == [w2 EXCEPT !.games[socketId].currentPiece = spawned.piece,
                         !.games[socketId].pieceQueue = spawned.updatedQueue,
                         !.games[socketId].canHold = TRUE]
        checked == checkGameOver(w3, socketId)
    IN IF checked.over THEN checked.w
       ELSE updatePlayerState(w3, socketId, w3.games[socketId])

handlePieceLanding(w, socketId, bag, holes) ==
  IF socketId \notin DOMAIN w.games \/ w.games[socketId].currentPiece = NoPiece THEN w
  ELSE
    LET gameState == w.games[socketId]
        updatedBoard == mergePieceToBoard(gameState.currentPiece, gameState.board)
        cleared == clearLines(updatedBoard)
        w1 == [w EXCEPT !.games[socketId].board = cleared.newBoard,
                        !.landed = TRUE,
                        !.linesCleared = cleared.linesCleared]
        w2 == IF cleared.linesCleared > 0
                THEN landingScore(w1, socketId, cleared.linesCleared, holes)
                ELSE w1
        spawned == spawnPiece(w2.games[socketId].pieceQueue, bag)
        w3 == [w2 EXCEPT !.games[socketId].currentPiece = w2.games[socketId].nextPiece,
                         !.games[socketId].nextPiece = spawned.piece,
                         !.games[socketId].pieceQueue = spawned.updatedQueue,
                         !.games[socketId].canHold = TRUE]
        checked == checkGameOver(w3, socketId)
    IN IF checked.over THEN checked.w
       ELSE updatePlayerState(w3, socketId, w3.games[socketId])

\* Variant of hardDropPiece: the piece stops after one row.
hardDropOneRow(piece, board) ==
  IF isValidMove(movePiece(piece, 0, 1), board) THEN movePiece(piece, 0, 1) ELSE piece

RECURSIVE hardDropPiece(_, _)
hardDropPiece(piece, board) ==
  IF isValidMove(movePiece(piece, 0, 1), board)
    THEN hardDropPiece(movePiece(piece, 0, 1), board)
    ELSE piece

\* case PlayerAction.HOLD with canHold true
\* A hold that forgets to spend the session's hold allowance.
holdActionKeepsAllowance(w, socketId, bag) ==
  LET gameState == w.games[socketId]
      held == holdPiece(gameState.currentPiece, gameState.heldPiece,
                        gameState.pieceQueue, bag)
      spawned == spawnPiece(held.updatedQueue, bag)
      w1 == [w EXCEPT !.games[socketId].currentPiece = held.newCurrentPiece,
                      !.games[socketId].heldPiece = held.newHeldPiece,
                      !.games[socketId].nextPiece = spawned.piece,
                      !.games[socketId].pieceQueue = spawned.updatedQueue]
  IN updatePlayerState(w1, socketId, w1.games[socketId])

holdAction(w, socketId, bag) ==
  LET gameState == w.games[socketId]
      held == holdPiece(gameState.currentPiece, gameState.heldPiece,
                        gameState.pieceQueue, bag)
      spawned == spawnPiece(held.updatedQueue, bag)
      w1 == [w EXCEPT !.games[socketId].currentPiece = held.newCurrentPiece,
                      !.games[socketId].heldPiece = held.newHeldPiece,
                      !.games[socketId].canHold = FALSE,
                      !.games[socketId].nextPiece = spawned.piece,
                      !.games[socketId].pieceQueue = spawned.updatedQueue]
  IN updatePlayerState(w1, socketId, w1.games[socketId])

\* Variant of handlePlayerAction: a piece moved down onto the stack is left in
\* hand instead of being landed in the same step.
handlePlayerActionNoTouch(w, socketId, type, bag, holes) ==
  IF socketId \notin DOMAIN w.games THEN w
  ELSE IF w.games[socketId].status # PLAYING THEN w
  ELSE IF w.games[socketId].currentPiece = NoPiece THEN w
  ELSE
    LET currentPiece == w.games[socketId].currentPiece
        board == w.games[socketId].board
        updatedPiece ==
          CASE type = MOVE_LEFT -> movePiece(currentPiece, -1, 0)
            [] type = MOVE_RIGHT -> movePiece(currentPiece, 1, 0)
            [] type = MOVE_DOWN -> movePiece(currentPiece, 0, 1)
            [] type = ROTATE -> rotatePiece(currentPiece, board)
            [] type = DROP -> hardDropPiece(currentPiece, board)
            [] OTHER -> NoPiece
        moved == [w EXCEPT !.games[socketId].currentPiece = updatedPiece]
    IN CASE type = DROP ->
              IF isValidMove(updatedPiece, board)
                THEN handlePieceLanding(moved, socketId, bag, holes)
                ELSE w
         [] type = HOLD ->
              IF w.games[socketId].canHold THEN holdAction(w, socketId, bag) ELSE w
         [] OTHER ->
              IF isValidMove(updatedPiece, board)
                THEN updatePlayerState(moved, socketId, moved.games[socketId])
                ELSE IF type = MOVE_DOWN
                       THEN handlePieceLanding(w, socketId, bag, holes)
                       ELSE w

handlePlayerAction(w, socketId, type, bag, holes) ==
  IF socketId \notin DOMAIN w.games THEN w
  ELSE IF w.games[socketId].status # PLAYING THEN w
  ELSE IF w.games[socketId].currentPiece = NoPiece THEN w
  ELSE
    LET currentPiece == w.games[socketId].currentPiece
        board == w.games[socketId].board
        updatedPiece ==
          CASE type = MOVE_LEFT -> movePiece(currentPiece, -1, 0)
            [] type = MOVE_RIGHT -> movePiece(currentPiece, 1, 0)
            [] type = MOVE_DOWN -> movePiece(currentPiece, 0, 1)
            [] type = ROTATE -> rotatePiece(currentPiece, board)
            [] type = DROP -> hardDropPiece(currentPiece, board)
            [] OTHER -> NoPiece
        moved == [w EXCEPT !.games[socketId].currentPiece = updatedPiece]
    IN CASE type = DROP ->
              IF isValidMove(updatedPiece, board)
                THEN handlePieceLanding(moved, socketId, bag, holes)
                ELSE w
         [] type = HOLD ->
              IF w.games[socketId].canHold THEN holdAction(w, socketId, bag) ELSE w
         [] OTHER ->
              IF isValidMove(updatedPiece, board)
                THEN IF type = MOVE_DOWN /\ ~isValidMove(movePiece(updatedPiece, 0, 1), board)
                       THEN handlePieceLanding(moved, socketId, bag, holes)
                       ELSE updatePlayerState(moved, socketId, moved.games[socketId])
                ELSE IF type = MOVE_DOWN
                       THEN handlePieceLanding(w, socketId, bag, holes)
                       ELSE w

\* Variant of tryMoveDown: a piece that comes to rest after the row is landed
\* in the same step, as the move_down of a player is.
tryMoveDownTouch(w, socketId, bag, holes) ==
  IF socketId \notin DOMAIN w.games \/ w.games[socketId].currentPiece = NoPiece THEN w
  ELSE
    LET nextPiece == movePiece(w.games[socketId].currentPiece, 0, 1) IN
    IF isValidMove(nextPiece, w.games[socketId].board)
      THEN LET w1 == [w EXCEPT !.games[socketId].currentPiece = nextPiece]
           IN IF isValidMove(movePiece(nextPiece, 0, 1), w.games[socketId].board)
                THEN updatePlayerState(w1, socketId, w1.games[socketId])
                ELSE handlePieceLanding(w1, socketId, bag, holes)
      ELSE handlePieceLanding(w, socketId, bag, holes)

tryMoveDown(w, socketId, bag, holes) ==
  IF socketId \notin DOMAIN w.games \/ w.games[socketId].currentPiece = NoPiece THEN w
  ELSE
    LET nextPiece == movePiece(w.games[socketId].currentPiece, 0, 1) IN
    IF isValidMove(nextPiece, w.games[socketId].board)
      THEN LET w1 == [w EXCEPT !.games[socketId].currentPiece = nextPiece]
           IN updatePlayerState(w1, socketId, w1.games[socketId])
      ELSE handlePieceLanding(w, socketId, bag, holes)

gameLoopTick(w, socketId, bag, holes) ==
  IF socketId \notin DOMAIN w.games \/ w.games[socketId].status # PLAYING THEN w
  ELSE tryMoveDown(w, socketId, bag, holes)

\* Identities are pairs: <<"socket", n>> a connection, <<"bot", n>> a bot.
BotId(n) == <<"bot", n>>

addBot(w, playerId, bag, kinds) ==
  IF getPlayerRoom(w, playerId) = 0 THEN [w EXCEPT !.ack = "false"]
  ELSE
    LET roomId == getPlayerRoom(w, playerId)
        botId == BotId(w.nextBot)
        w1 == [w EXCEPT !.nextBot = @ + 1, !.bots = @ \cup {botId}]
        w2 == initializeGame(w1, botId, bag)
        w3 == addBotToRoom(w2, roomId, newPlayer(botId), kinds)
        w4 == startGameLoop(w3, botId)
        w5 == IF botId \in DOMAIN w4.games
                THEN [w4 EXCEPT !.botTimers = @ \cup {botId}]
                ELSE w4
    IN [w5 EXCEPT !.ack = "true"]

removeBot(w, playerId, botId) ==
  IF getPlayerRoom(w, playerId) = 0 THEN [w EXCEPT !.ack = "false"]
  ELSE IF botId \notin w.bots THEN [w EXCEPT !.ack = "false"]
  ELSE
    LET w1 == [w EXCEPT !.botTimers = @ \ {botId}]
        w2 == stopGameLoop(w1, botId)
        w3 == leaveRoom(w2, botId)
    IN [w3 EXCEPT !.games = Without(@, botId),
                  !.bots = @ \ {botId},
                  !.ack = "true"]

joinRoomHandler(w, socketId, roomId, bag, kinds) ==
  LET w1 == joinRoom(w, socketId, roomId, kinds) IN
  IF w1.ack = "true"
    THEN [startGameLoop(initializeGame(w1, socketId, bag), socketId) EXCEPT !.ack = "true"]
    ELSE w1

startSinglePlayerWithBot(w, socketId, bag, kinds, botBag, botKinds) ==
  LET w1 == createRoom(w)
      roomId == w1.created
      w2 == joinRoom(w1, socketId, roomId, kinds)
  IN IF w2.ack # "true" THEN w2
     ELSE addBot(startGameLoop(initializeGame(w2, socketId, bag), socketId),
                 socketId, botBag, botKinds)

\* Variant of the startGame handler: a room of one member may start.
startGameHandlerAlone(w, socketId, roomId) ==
  LET room == getPlayerRoom(w, socketId) IN
  IF room = 0 \/ room # roomId THEN [w EXCEPT !.ack = "false"]
  ELSE LET w1 == setRoomActive(w, roomId, TRUE) IN
    IF w1.ack = "true"
      THEN Emit(w1, [ev |-> "gameStarting", room |-> roomId,
                     count |-> Len(w1.rooms[roomId].players)])
      ELSE w1

startGameHandler(w, socketId, roomId) ==
  LET room == getPlayerRoom(w, socketId) IN
  IF room = 0 \/ room # roomId THEN [w EXCEPT !.ack = "false"]
  ELSE IF Len(w.rooms[room].players) < 2 THEN [w EXCEPT !.ack = "false"]
  ELSE LET w1 == setRoomActive(w, roomId, TRUE) IN
    IF w1.ack = "true"
      THEN Emit(w1, [ev |-> "gameStarting", room |-> roomId,
                     count |-> Len(w1.rooms[roomId].players)])
      ELSE w1

\* Variant of handleDisconnection: the session is not deleted.
handleDisconnectionKeepsSession(w, socketId) ==
  leaveRoom(stopGameLoop(w, socketId), socketId)

handleDisconnection(w, socketId) ==
  LET w1 == stopGameLoop(w, socketId)
      w2 == [w1 EXCEPT !.games = Without(@, socketId)]
  IN leaveRoom(w2, socketId)

\* Variant of botDecision: a firing that finds the session over leaves the
\* timer running.
botDecisionKeepsTimer(w, botId, action, bag, holes) ==
  IF w.games[botId].status # PLAYING THEN w
  ELSE IF w.games[botId].currentPiece = NoPiece THEN w
  ELSE handlePlayerAction(w, botId, action, bag, holes)

\* The timer callback of Bot.start: the closure holds the bot's GameState object.
botDecision(w, botId, action, bag, holes) ==
  IF w.games[botId].status # PLAYING
    THEN [w EXCEPT !.botTimers = @ \ {botId}]
  ELSE IF w.games[botId].currentPiece = NoPiece THEN w
  ELSE handlePlayerAction(w, botId, action, bag, holes)



\* ------------------------------------------------------------ inputs

\* The socket ids that connect (handleConnection only registers listeners).
SocketA == <<"socket", 1>>

SocketB == <<"socket", 2>>

Conns == {SocketA, SocketB}

NoId == <<"none", 0>>

\* The permutations generatePieceBag is taken to draw while a game is played.
Bags == { <<"I", "O", "T", "L", "J", "S", "Z">>,
          <<"O", "I", "Z", "S", "J", "L", "T">> }

\* The permutation generatePieceBag is taken to draw while members are seated.
FirstBag == <<"I", "O", "T", "L", "J", "S", "Z">>

FirstBags == {FirstBag}

\* The first kinds of the two bags joinRoom / addBotToRoom draw for the room.
RoomKinds == {[cur |-> Head(b1), next |-> Head(b2)] : b1 \in FirstBags, b2 \in FirstBags}

FirstKinds == [cur |-> Head(FirstBag), next |-> Head(FirstBag)]

\* The hole columns createGarbageLine is taken to draw for one delivery.
HoleDraws == { <<9, 9, 9, 9>>, <<0, 3, 0, 3>> }

MaxOps == 5

MaxMoves == 2

\* ------------------------------------------------------------ recorded plays
\* Input scripts that the handlers above replay from the constructed managers:
\* the states they end in are the starting points of the gameplay specification.

Constructed ==
  [games |-> <<>>, gameLoops |-> <<>>, intervals |-> <<>>, bots |-> {}, botTimers |-> {},
   rooms |-> <<>>, playerRooms |-> <<>>, sockets |-> Conns,
   nextRoom |-> 1, nextBot |-> 1, emitted |-> <<>>,
   ack |-> "none", created |-> 0, landed |-> FALSE, linesCleared |-> 0]

ScriptStep(w, s) ==
  CASE s.op = "createRoom" -> createRoom(w)
    [] s.op = "joinRoom" -> joinRoomHandler(w, s.id, s.room, s.bag, FirstKinds)
    [] s.op = "addBot" -> addBot(w, s.id, s.bag, FirstKinds)
    [] s.op = "playerAction" -> handlePlayerAction(w, s.id, s.action, s.bag, <<0, 0, 0, 0>>)

\* The steps lo..hi of a script, in order; it ends early once no connection is left.
RECURSIVE Run(_, _, _, _)
Run(w, script, lo, hi) ==
  IF lo > hi THEN w
  ELSE IF lo = hi THEN [ScriptStep(w, script[lo]) EXCEPT !.emitted = <<>>]
  ELSE LET mid == (lo + hi) \div 2
           half == Run(w, script, lo, mid)
       IN IF half.sockets = {} THEN half ELSE Run(half, script, mid + 1, hi)

Replay(script) == Run(Constructed, script, 1, Len(script))

\* moves[i] = <<action, index of the bag generatePieceBag would draw next>>
Play(id, moves, bags) ==
  [i \in 1..Len(moves) |->
     [op |-> "playerAction", id |-> id, action |-> moves[i][1], bag |-> bags[moves[i][2]]]]

Create(id) == << [op |-> "createRoom", id |-> id] >>

Join(id, roomId, bag) == << [op |-> "joinRoom", id |-> id, room |-> roomId, bag |-> bag] >>

Bot(id) == << [op |-> "addBot", id |-> id, bag |-> FirstBag] >>

LongBags ==
  << <<"I", "J", "L", "O", "S", "T", "Z">>,
     <<"L", "O", "J", "Z", "T", "S", "I">>,
     <<"J", "I", "L", "T", "O", "S", "Z">>,
     <<"T", "L", "I", "S", "Z", "J", "O">>,
     <<"L", "O", "I", "T", "J", "S", "Z">>,
     <<"I", "O", "T", "L", "J", "S", "Z">> >>

\* 26 pieces placed, 9 lines cleared; the piece in hand completes the tenth.
LevelUpMoves ==
  << <<DROP, 2>>, <<MOVE_LEFT, 2>>, <<MOVE_LEFT, 2>>, <<MOVE_LEFT, 2>>, <<DROP, 2>>,
     <<MOVE_RIGHT, 2>>, <<MOVE_RIGHT, 2>>, <<MOVE_RIGHT, 2>>, <<MOVE_RIGHT, 2>>, <<DROP, 2>>,
     <<DROP, 2>>, <<MOVE_RIGHT, 2>>, <<MOVE_RIGHT, 2>>, <<MOVE_RIGHT, 2>>, <<MOVE_RIGHT, 2>>,
     <<DROP, 2>>, <<MOVE_LEFT, 3>>, <<MOVE_LEFT, 3>>, <<DROP, 3>>, <<ROTATE, 3>>,
     <<MOVE_RIGHT, 3>>, <<MOVE_RIGHT, 3>>, <<DROP, 3>>, <<ROTATE, 3>>, <<ROTATE, 3>>,
     <<DROP, 3>>, <<MOVE_LEFT, 3>>, <<MOVE_LEFT, 3>>, <<MOVE_LEFT, 3>>, <<MOVE_LEFT, 3>>,
     <<DROP, 3>>, <<ROTATE, 3>>, <<ROTATE, 3>>, <<MOVE_LEFT, 3>>, <<MOVE_LEFT, 3>>,
     <<MOVE_LEFT, 3>>, <<DROP, 3>>, <<MOVE_RIGHT, 3>>, <<MOVE_RIGHT, 3>>, <<MOVE_RIGHT, 3>>,
     <<MOVE_RIGHT, 3>>, <<DROP, 3>>, <<ROTATE, 3>>, <<ROTATE, 3>>, <<ROTATE, 3>>,
     <<MOVE_RIGHT, 3>>, <<MOVE_RIGHT, 3>>, <<DROP, 3>>, <<DROP, 4>>, <<MOVE_LEFT, 4>>,
     <<MOVE_LEFT, 4>>, <<MOVE_LEFT, 4>>, <<DROP, 4>>, <<ROTATE, 4>>, <<ROTATE, 4>>,
     <<MOVE_RIGHT, 4>>, <<MOVE_RIGHT, 4>>, <<MOVE_RIGHT, 4>>, <<MOVE_RIGHT, 4>>, <<DROP, 4>>,
     <<DROP, 4>>, <<MOVE_LEFT, 4>>, <<MOVE_LEFT, 4>>, <<MOVE_LEFT, 4>>, <<DROP, 4>>,
     <<MOVE_RIGHT, 4>>, <<MOVE_RIGHT, 4>>, <<MOVE_RIGHT, 4>>, <<MOVE_RIGHT, 4>>, <<DROP, 4>>,
     <<MOVE_LEFT, 4>>, <<MOVE_LEFT, 4>>, <<MOVE_LEFT, 4>>, <<MOVE_LEFT, 4>>, <<DROP, 4>>,
     <<MOVE_RIGHT, 5>>, <<MOVE_RIGHT, 5>>, <<MOVE_RIGHT, 5>>, <<DROP, 5>>, <<MOVE_LEFT, 5>>,
     <<DROP, 5>>, <<ROTATE, 5>>, <<ROTATE, 5>>, <<MOVE_RIGHT, 5>>, <<DROP, 5>>,
     <<ROTATE, 5>>, <<ROTATE, 5>>, <<ROTATE, 5>>, <<MOVE_RIGHT, 5>>, <<MOVE_RIGHT, 5>>,
     <<MOVE_RIGHT, 5>>, <<MOVE_RIGHT, 5>>, <<MOVE_RIGHT, 5>>, <<DROP, 5>>, <<MOVE_LEFT, 5>>,
     <<DROP, 5>>, <<MOVE_LEFT, 5>>, <<MOVE_LEFT, 5>>, <<MOVE_LEFT, 5>>, <<DROP, 5>>,
     <<MOVE_RIGHT, 5>>, <<MOVE_RIGHT, 5>> >>

\* Its landing and three more pieces at level 1; the piece in hand completes two lines.
LevelOneMoves ==
  << <<DROP, 5>>, <<ROTATE, 6>>, <<ROTATE, 6>>, <<MOVE_RIGHT, 6>>, <<MOVE_RIGHT, 6>>,
     <<DROP, 6>>, <<MOVE_LEFT, 6>>, <<DROP, 6>>, <<ROTATE, 6>>, <<ROTATE, 6>>,
     <<MOVE_LEFT, 6>>, <<MOVE_LEFT, 6>>, <<MOVE_LEFT, 6>>, <<DROP, 6>>, <<MOVE_RIGHT, 6>>,
     <<MOVE_RIGHT, 6>>, <<MOVE_RIGHT, 6>>, <<MOVE_RIGHT, 6>> >>

\* 7 pieces placed, no line cleared; the piece in hand completes three.
TripleBags ==
  << <<"I", "J", "O", "S", "L", "Z", "T">>,
     <<"I", "O", "T", "L", "J", "S", "Z">>,
     <<"I", "O", "T", "L", "J", "S", "Z">> >>

TripleMoves ==
  << <<DROP, 2>>, <<MOVE_LEFT, 2>>, <<MOVE_LEFT, 2>>, <<MOVE_LEFT, 2>>, <<DROP, 2>>,
     <<DROP, 2>>, <<ROTATE, 2>>, <<MOVE_RIGHT, 2>>, <<MOVE_RIGHT, 2>>, <<DROP, 2>>,
     <<ROTATE, 2>>, <<ROTATE, 2>>, <<ROTATE, 2>>, <<MOVE_RIGHT, 2>>, <<MOVE_RIGHT, 2>>,
     <<MOVE_RIGHT, 2>>, <<MOVE_RIGHT, 2>>, <<DROP, 2>>, <<MOVE_LEFT, 3>>, <<MOVE_LEFT, 3>>,
     <<MOVE_LEFT, 3>>, <<DROP, 3>>, <<ROTATE, 3>>, <<ROTATE, 3>>, <<ROTATE, 3>>,
     <<MOVE_LEFT, 3>>, <<DROP, 3>>, <<ROTATE, 3>>, <<MOVE_RIGHT, 3>>, <<MOVE_RIGHT, 3>>,
     <<MOVE_RIGHT, 3>>, <<MOVE_RIGHT, 3>> >>

\* 9 pieces placed, no line cleared; the piece in hand completes four.
TetrisBags ==
  << <<"I", "J", "Z", "L", "S", "O", "T">>,
     <<"J", "T", "I", "O", "L", "S", "Z">>,
     <<"I", "O", "T", "L", "J", "S", "Z">> >>

TetrisMoves ==
  << <<DROP, 2>>, <<MOVE_LEFT, 2>>, <<MOVE_LEFT, 2>>, <<MOVE_LEFT, 2>>, <<DROP, 2>>,
     <<MOVE_RIGHT, 2>>, <<MOVE_RIGHT, 2>>, <<MOVE_RIGHT, 2>>, <<DROP, 2>>, <<DROP, 2>>,
     <<MOVE_LEFT, 2>>, <<MOVE_LEFT, 2>>, <<DROP, 2>>, <<MOVE_LEFT, 3>>, <<MOVE_LEFT, 3>>,
     <<MOVE_LEFT, 3>>, <<MOVE_LEFT, 3>>, <<DROP, 3>>, <<ROTATE, 3>>, <<ROTATE, 3>>,
     <<ROTATE, 3>>, <<MOVE_RIGHT, 3>>, <<MOVE_RIGHT, 3>>, <<MOVE_RIGHT, 3>>, <<MOVE_RIGHT, 3>>,
     <<DROP, 3>>, <<ROTATE, 3>>, <<ROTATE, 3>>, <<MOVE_LEFT, 3>>, <<DROP, 3>>,
     <<ROTATE, 3>>, <<ROTATE, 3>>, <<MOVE_RIGHT, 3>>, <<MOVE_RIGHT, 3>>, <<DROP, 3>>,
     <<ROTATE, 3>>, <<MOVE_RIGHT, 3>>, <<MOVE_RIGHT, 3>>, <<MOVE_RIGHT, 3>>, <<MOVE_RIGHT, 3>> >>


\* The upright I of that game lowered into the well at the right wall, one row
\* above the floor of the well: no rotation fits and one more row down touches.
WellMoves == [i \in 1..15 |-> <<MOVE_DOWN, 3>>]


\* Ten pieces dropped where they spawn: the stack reaches row 2.
StackMoves == [i \in 1..10 |-> <<DROP, 1>>]

StackBags == << FirstBag >>

\* After them: the L in hand is held, the S that follows is laid upright on the
\* left of the spawn columns, and the Z after it is in hand above the stack.
HeldMoves == << <<HOLD, 1>>, <<MOVE_LEFT, 1>>, <<ROTATE, 1>>, <<MOVE_DOWN, 1>> >>

\* SocketB alone in room 1 with a high stack and a piece in the hold slot.
Solo(moves, bags) ==
  Create(SocketB) \o Join(SocketB, 1, FirstBag) \o Play(SocketB, moves, bags)

\* SocketA plays moves in room 1 beside a bot and SocketB, whose stack is high.
Versus(moves, bags) ==
  Create(SocketA) \o Join(SocketA, 1, bags[1]) \o Bot(SocketA) \o Join(SocketB, 1, FirstBag)
    \o Play(SocketB, StackMoves, StackBags) \o Play(SocketA, moves, bags)

\* SocketB joins room 1, then room 2, and stacks high there; SocketA plays in room 1.
TwoRooms(moves, bags) ==
  Create(SocketA) \o Join(SocketA, 1, bags[1]) \o Join(SocketB, 1, FirstBag)
    \o Create(SocketB) \o Join(SocketB, 2, FirstBag)
    \o Play(SocketB, StackMoves, StackBags) \o Play(SocketA, moves, bags)

Recorded ==
  << Versus(LevelUpMoves, LongBags),
     Versus(LevelUpMoves \o LevelOneMoves, LongBags),
     Versus(TripleMoves, TripleBags),
     Versus(TetrisMoves, TetrisBags),
     TwoRooms(TripleMoves, TripleBags),
     Versus(TetrisMoves \o WellMoves, TetrisBags),
     Solo(StackMoves \o HeldMoves, StackBags) >>

\* ------------------------------------------------------------ actions

NoLast ==
  [op |-> "none", id |-> NoId, room |-> 0, bot |-> NoId, action |-> "none",
   ack |-> "none", landed |-> FALSE, linesCleared |-> 0]

\* No engine function has been called directly.
NoProbe ==
  [fn |-> "none", piece |-> NoPiece, board |-> <<>>, valid |-> FALSE,
   rotated |-> NoPiece, cleared |-> [newBoard |-> <<>>, linesCleared |-> 0],
   merged |-> <<>>, lineCount |-> 0, holes |-> <<>>, garbage |-> <<>>,
   queue |-> <<>>, spawned |-> <<>>]

\* The world a handler leaves becomes the next state.
Commit(w, op, id, roomId, botId, action) ==
  /\ games' = w.games
  /\ gameLoops' = w.gameLoops
  /\ intervals' = w.intervals
  /\ bots' = w.bots
  /\ botTimers' = w.botTimers
  /\ rooms' = w.rooms
  /\ playerRooms' = w.playerRooms
  /\ sockets' = w.sockets
  /\ nextRoom' = w.nextRoom
  /\ nextBot' = w.nextBot
  /\ emitted' = w.emitted
  /\ last' = [op |-> op, id |-> id, room |-> roomId, bot |-> botId, action |-> action,
              ack |-> w.ack, landed |-> w.landed, linesCleared |-> w.linesCleared]
  /\ probe' = probe

RoomOp == opsLeft > 0 /\ opsLeft' = opsLeft - 1 /\ movesLeft' = movesLeft

MoveOp == movesLeft > 0 /\ movesLeft' = movesLeft - 1 /\ opsLeft' = opsLeft

CreateRoom ==
  \E c \in sockets :
    /\ RoomOp
    /\ Commit(createRoom(World), "createRoom", c, nextRoom, NoId, "none")

JoinRoom ==
  \E c \in sockets, r \in 1..nextRoom, bag \in FirstBags, kinds \in RoomKinds :
    /\ RoomOp
    /\ Commit(joinRoomHandler(World, c, r, bag, kinds), "joinRoom", c, r, NoId, "none")

StartGame ==
  \E c \in sockets, r \in 1..nextRoom :
    /\ RoomOp
    /\ Commit(startGameHandler(World, c, r), "startGame", c, r, NoId, "none")

AddBot ==
  \E c \in sockets, bag \in FirstBags, kinds \in RoomKinds :
    /\ RoomOp
    /\ Commit(addBot(World, c, bag, kinds), "addBot", c, getPlayerRoom(World, c),
              BotId(nextBot), "none")

RemoveBot ==
  \E c \in sockets, b \in bots \cup {BotId(nextBot)} :
    /\ RoomOp
    /\ Commit(removeBot(World, c, b), "removeBot", c, 0, b, "none")

StartSinglePlayerWithBot ==
  \E c \in sockets, bag \in FirstBags, kinds \in RoomKinds :
    /\ RoomOp
    /\ Commit(startSinglePlayerWithBot(World, c, bag, kinds, bag, kinds),
              "startSinglePlayerWithBot", c, nextRoom, BotId(nextBot), "none")

Disconnect ==
  \E c \in sockets :
    /\ RoomOp
    /\ Commit([handleDisconnection(World, c) EXCEPT !.sockets = @ \ {c}],
              "disconnect", c, getPlayerRoom(World, c), NoId, "none")

PlayerActionEvent ==
  \E c \in sockets, type \in PlayerAction, bag \in Bags, holes \in HoleDraws :
    /\ MoveOp
    /\ Commit(handlePlayerAction(World, c, type, bag, holes),
              "playerAction", c, 0, NoId, type)

GravityTick ==
  \E id \in DOMAIN gameLoops, bag \in Bags, holes \in HoleDraws :
    /\ MoveOp
    /\ Commit(gameLoopTick(World, id, bag, holes), "gameLoopTick", id, 0, NoId, "none")

BotTick ==
  \E b \in botTimers, action \in PlayerAction, bag \in Bags, holes \in HoleDraws :
    /\ MoveOp
    /\ Commit(botDecision(World, b, action, bag, holes), "botDecision", b, 0, b, action)

\* The requests that seat and unseat members.
Next ==
  \/ CreateRoom
  \/ JoinRoom
  \/ StartGame
  \/ AddBot
  \/ RemoveBot
  \/ StartSinglePlayerWithBot
  \/ Disconnect

\* The events of a game being played.
NextPlay ==
  \/ PlayerActionEvent
  \/ GravityTick
  \/ BotTick

Start(w) ==
  /\ games = w.games
  /\ gameLoops = w.gameLoops
  /\ intervals = w.intervals
  /\ bots = w.bots
  /\ botTimers = w.botTimers
  /\ rooms = w.rooms
  /\ playerRooms = w.playerRooms
  /\ sockets = w.sockets
  /\ nextRoom = w.nextRoom
  /\ nextBot = w.nextBot
  /\ emitted = <<>>
  /\ last = NoLast

\* The managers as constructed, every socket of Conns connected.
Init ==
  /\ Start(Constructed)
  /\ opsLeft = MaxOps
  /\ movesLeft = 0
  /\ probe = NoProbe

Spec == Init /\ [][Next]_vars

\* A game under way: the state one of the recorded plays ends in.
InitPlay ==
  /\ \E p \in DOMAIN Recorded : Start(Replay(Recorded[p]))
  /\ opsLeft = 0
  /\ movesLeft = MaxMoves
  /\ probe = NoProbe

SpecPlay == InitPlay /\ [][NextPlay]_vars

\* ------------------------------------------------------------ a bot near the end of its game

MaxRemovals == 1

\* SocketA in room 1 beside a bot whose decisions were ten drops: its stack
\* reaches row 2 and the next piece to land ends its game.
BotStack ==
  Create(SocketA) \o Join(SocketA, 1, FirstBag) \o Bot(SocketA)
    \o Play(BotId(1), StackMoves, StackBags)

NextBots ==
  \/ RemoveBot
  \/ BotTick
  \/ GravityTick

InitBots ==
  /\ \E script \in {BotStack, Versus(TripleMoves, TripleBags)} : Start(Replay(script))
  /\ opsLeft = MaxRemovals
  /\ movesLeft = MaxMoves
  /\ probe = NoProbe

SpecBots == InitBots /\ [][NextBots]_vars

\* ------------------------------------------------------------ a game left to gravity

\* The permutations generatePieceBag is taken to draw in a game nobody plays:
\* every kind comes first in one of them.
TickBags ==
  {[i \in 1..7 |-> FirstBag[((i + k - 1) % 7) + 1]] : k \in 0..6}
    \cup {<<"O", "I", "Z", "S", "J", "L", "T">>}

\* The gravity timer of a session fires; nothing else happens in the game.
TickAlone ==
  \E id \in DOMAIN gameLoops, bag \in TickBags :
    \E w \in {gameLoopTick(World, id, bag, <<0, 0, 0, 0>>)} :
      /\ Commit(w, "gameLoopTick", id, 0, NoId, "none")
      /\ UNCHANGED <<opsLeft, movesLeft>>

NextGravity == TickAlone

\* SocketA has joined room 1 and sends nothing.
InitGravity ==
  /\ \E bag \in TickBags : Start(Replay(Create(SocketA) \o Join(SocketA, 1, bag)))
  /\ opsLeft = 0
  /\ movesLeft = 0
  /\ probe = NoProbe

\* A gravity timer is live: setInterval fires it again and again.
TimerLive == DOMAIN gameLoops # {}

\* WF_vars(TickAlone) written out: a tick of a live timer always changes its
\* session, so <<TickAlone>>_vars is enabled exactly when TimerLive holds, and
\* weak fairness says that infinitely often no timer is live or infinitely
\* often a tick occurs.
TimerFairness == []<>(~TimerLive) \/ []<><<TickAlone>>_vars

SpecGravity == InitGravity /\ [][NextGravity]_vars /\ TimerFairness

\* ------------------------------------------------------------ leaving a game under way

MaxLeaves == 2

MaxLateMoves == 2

\* A tick or player action attributed to an identity whose disconnect was handled.
LateEvent ==
  \E id \in Conns \ sockets, bag \in Bags, holes \in HoleDraws :
    /\ MoveOp
    /\ \/ \E type \in PlayerAction :
            Commit(handlePlayerAction(World, id, type, bag, holes),
                   "playerAction", id, 0, NoId, type)
       \/ Commit(gameLoopTick(World, id, bag, holes), "gameLoopTick", id, 0, NoId, "none")

NextLeave ==
  \/ Disconnect
  \/ PlayerActionEvent
  \/ GravityTick
  \/ BotTick
  \/ LateEvent

\* A game under way that connections may leave.
InitLeave ==
  /\ \E script \in {Versus(TripleMoves, TripleBags), TwoRooms(TripleMoves, TripleBags)} :
       Start(Replay(script))
  /\ opsLeft = MaxLeaves
  /\ movesLeft = MaxLateMoves
  /\ probe = NoProbe

SpecLeave == InitLeave /\ [][NextLeave]_vars

\* ------------------------------------------------------------ the engine called directly

\* The shape after k quarter turns.
RECURSIVE Turn(_, _)
Turn(shape, k) == IF k = 0 THEN shape ELSE Turn(rotateMatrix(shape), k - 1)

\* Pieces of every kind and rotation, at the walls, in the middle, above the
\* top edge, at the top, and from the rim of the well down to below the floor.
ProbeColumns == {-2, -1, 0, 3, 6, 7, 8, 9}

ProbeRows == {-2, -1, 0, 1, 13, 14, 15, 16, 17, 18}

ProbePieces ==
  { [type |-> type, shape |-> Turn(TETROMINOES(type), k),
     position |-> [x |-> x, y |-> y], rotation |-> k] :
      type \in TetrominoType, k \in 0..3, x \in ProbeColumns, y \in ProbeRows }

\* The well of the recorded game: rows 16..19 filled but for column 9.
WellBoard ==
  [y \in 0..(BOARD_HEIGHT - 1) |->
    [x \in 0..(BOARD_WIDTH - 1) |-> IF y >= 16 /\ x < 9 THEN 1 ELSE 0]]

\* A shaft two cells wide under an open top, and a ledge in row 1 at the left.
ShaftBoard ==
  [y \in 0..(BOARD_HEIGHT - 1) |->
    [x \in 0..(BOARD_WIDTH - 1) |->
       IF (y >= 3 /\ x \notin {4, 5}) \/ (y = 1 /\ x < 2) THEN 8 ELSE 0]]

PieceBoards == {createEmptyBoard, WellBoard, ShaftBoard}

\* A row with one hole whose place and colour tell which row it was.
PartialRow(y) ==
  [x \in 0..(BOARD_WIDTH - 1) |-> IF x = y % BOARD_WIDTH THEN 0 ELSE 1 + (y % 7)]

FullRow == [x \in 0..(BOARD_WIDTH - 1) |-> 8]

\* Boards whose complete rows are those of a set, the other rows partial from
\* row top on and empty above it.
LineBoards ==
  { [y \in 0..(BOARD_HEIGHT - 1) |->
       IF y \in full THEN FullRow ELSE IF y < top THEN EmptyRow ELSE PartialRow(y)] :
      full \in SUBSET {0, 1, 5, 10, 18, 19}, top \in {0, 3} }

\* Boards that receive garbage: empty, the well, and boards of partial rows.
GarbageBoards ==
  { createEmptyBoard, WellBoard,
    [y \in 0..(BOARD_HEIGHT - 1) |-> PartialRow(y)],
    [y \in 0..(BOARD_HEIGHT - 1) |-> IF y < 3 THEN EmptyRow ELSE PartialRow(y)] }

\* The hole columns createGarbageLine draws for the lines of one call.
HoleSeqs ==
  { [i \in 1..BOARD_HEIGHT |-> (a * i + b) % BOARD_WIDTH] : a \in {0, 3}, b \in {0, 9} }

\* <<piece, board, lineCount, holes>>
ProbeInputs ==
  (ProbePieces \X PieceBoards \X {0} \X {<<>>})
    \cup ({createPiece("T")} \X LineBoards \X {0} \X {<<>>})
    \cup ({createPiece("T")} \X GarbageBoards \X (0..BOARD_HEIGHT) \X HoleSeqs)

\* A call of fn on the arguments at hand.
Probe(fn, piece, board) ==
  [NoProbe EXCEPT !.fn = fn, !.piece = piece, !.board = board,
                  !.lineCount = probe.lineCount, !.holes = probe.holes]

IsValidMoveCall ==
  /\ probe' = [Probe("isValidMove", probe.piece, probe.board) EXCEPT
                 !.valid = isValidMove(probe.piece, probe.board)]
  /\ UNCHANGED <<games, gameLoops, intervals, bots, botTimers, rooms, playerRooms, sockets,
                 nextRoom, nextBot, emitted, last, opsLeft, movesLeft>>

RotatePieceCall ==
  /\ probe' = [Probe("rotatePiece", probe.piece, probe.board) EXCEPT
                 !.rotated = rotatePiece(probe.piece, probe.board)]
  /\ UNCHANGED <<games, gameLoops, intervals, bots, botTimers, rooms, playerRooms, sockets,
                 nextRoom, nextBot, emitted, last, opsLeft, movesLeft>>

ClearLinesCall ==
  /\ probe' = [Probe("clearLines", probe.piece, probe.board) EXCEPT
                 !.cleared = clearLines(probe.board)]
  /\ UNCHANGED <<games, gameLoops, intervals, bots, botTimers, rooms, playerRooms, sockets,
                 nextRoom, nextBot, emitted, last, opsLeft, movesLeft>>

MergePieceToBoardCall ==
  /\ probe' = [Probe("mergePieceToBoard", probe.piece, probe.board) EXCEPT
                 !.merged = mergePieceToBoard(probe.piece, probe.board)]
  /\ UNCHANGED <<games, gameLoops, intervals, bots, botTimers, rooms, playerRooms, sockets,
                 nextRoom, nextBot, emitted, last, opsLeft, movesLeft>>

AddGarbageLinesCall ==
  /\ probe' = [Probe("addGarbageLines", probe.piece, probe.board) EXCEPT
                 !.garbage = addGarbageLines(probe.board, probe.lineCount, probe.holes)]
  /\ UNCHANGED <<games, gameLoops, intervals, bots, botTimers, rooms, playerRooms, sockets,
                 nextRoom, nextBot, emitted, last, opsLeft, movesLeft>>

NextEngine ==
  \/ IsValidMoveCall
  \/ RotatePieceCall
  \/ ClearLinesCall
  \/ MergePieceToBoardCall
  \/ AddGarbageLinesCall

InitEngine ==
  /\ Start(Constructed)
  /\ opsLeft = 0
  /\ movesLeft = 0
  /\ \E input \in ProbeInputs :
       probe = [NoProbe EXCEPT !.piece = input[1], !.board = input[2],
                               !.lineCount = input[3], !.holes = input[4]]

SpecEngine == InitEngine /\ [][NextEngine]_vars

\* ------------------------------------------------------------ the piece queue

MaxSpawns == 15

\* The permutations generatePieceBag is taken to draw for the queue.
BagDraws == Bags \cup { <<"Z", "S", "J", "L", "T", "O", "I">> }

\* One more spawn from the queue the previous spawn returned.
SpawnPieceCall ==
  \E bag \in BagDraws :
    LET spawn == spawnPiece(probe.queue, bag)
    IN /\ Len(probe.spawned) < MaxSpawns
       /\ probe' = [NoProbe EXCEPT !.fn = "spawnPiece",
                                   !.queue = spawn.updatedQueue,
                                   !.spawned = Append(probe.spawned, spawn.piece.type)]
       /\ UNCHANGED <<games, gameLoops, intervals, bots, botTimers, rooms, playerRooms, sockets,
                      nextRoom, nextBot, emitted, last, opsLeft, movesLeft>>

NextBag == SpawnPieceCall

\* The queue is empty and nothing has been spawned.
InitBag ==
  /\ Start(Constructed)
  /\ opsLeft = 0
  /\ movesLeft = 0
  /\ probe = NoProbe

SpecBag == InitBag /\ [][NextBag]_vars

\* ------------------------------------------------------------ properties

\* The members of a room, as identities.
MemberIds(room) == {room.players[i].id : i \in 1..Len(room.players)}

\* The rows of a board that hold garbage cells.
GarbageRows(board) ==
  Cardinality({y \in DOMAIN board : \E x \in DOMAIN board[y] : board[y][x] = 8})

\* The receiveGarbage notifications the last handler sent to an identity.
Notified(events, m) ==
  SelectSeq(events, LAMBDA e : e.ev = "receiveGarbage" /\ e.to = m)

\* The step is a landing in the session of last'.id.
Landing == last'.landed /\ last'.id \in DOMAIN games /\ last'.id \in DOMAIN games'

\* The copy of a session that the identity's room holds and broadcasts.
RoomCopy(rs, prs, id) == rs[prs[id]].gameStates[id]

HasRoomCopy(rs, prs, id) ==
  /\ id \in DOMAIN prs
  /\ prs[id] \in DOMAIN rs
  /\ id \in DOMAIN rs[prs[id]].gameStates

AttackTable(k) ==
  CASE k = 2 -> 1
    [] k = 3 -> 2
    [] k = 4 -> 4
    [] OTHER -> 0

C1_Landing ==
  Landing /\ getPlayerRoom(World, last'.id) # 0 =>
    LET a == last'.id
        r == getPlayerRoom(World, a)
    IN \A m \in MemberIds(rooms[r]) :
         LET injected == GarbageRows(rooms'[r].gameStates[m].board)
                           - GarbageRows(rooms[r].gameStates[m].board)
             notes == Notified(emitted', m)
         IN /\ injected = IF m # a /\ rooms[r].gameStates[m].status = PLAYING
                            THEN AttackTable(last'.linesCleared)
                            ELSE 0
            /\ injected > 0 => Len(notes) = 1 /\ notes[1].lineCount = injected
            /\ injected = 0 => Len(notes) = 0

\* C1: a landing that clears k lines injects {1:0, 2:1, 3:2, 4:4}[k] garbage
\* lines into every other playing member of the lander's room and none into
\* the lander or a member that is not playing, and each member that receives
\* garbage gets exactly one notification carrying the injected count.
C1_GarbageTable == [][C1_Landing]_vars

C2_Injection ==
  \A i \in 1..Len(emitted') :
    emitted'[i].ev = "receiveGarbage" /\ emitted'[i].to \in DOMAIN games' =>
      GarbageRows(games'[emitted'[i].to].board) >= emitted'[i].lineCount

C2_OwnStep ==
  \A b \in DOMAIN games :
    /\ last'.id = b
    /\ ~last'.landed
    /\ HasRoomCopy(rooms, playerRooms, b)
    /\ HasRoomCopy(rooms', playerRooms', b)
    => GarbageRows(RoomCopy(rooms', playerRooms', b).board)
         >= GarbageRows(RoomCopy(rooms, playerRooms, b).board)

\* C2: garbage injected into a session is on the board that session's own
\* ticks and actions operate on, and the session's own next tick or action
\* (one that lands nothing) does not revert its board to the pre-garbage rows.
C2_GarbageKept == [][C2_Injection /\ C2_OwnStep]_vars

ScoreBase(k) ==
  CASE k = 1 -> 100
    [] k = 2 -> 300
    [] k = 3 -> 500
    [] k = 4 -> 800
    [] OTHER -> 0

\* C3: a landing that clears k lines adds {1:100, 2:300, 3:500, 4:800}[k] times
\* (level before the landing + 1) to the score; a landing that clears nothing
\* leaves the score unchanged.
C3_ScoreTable ==
  [][Landing =>
       games'[last'.id].player.score =
         games[last'.id].player.score
           + ScoreBase(last'.linesCleared) * (games[last'.id].player.level + 1)]_vars

\* What game-over terminality freezes of a session.
Frozen(g) ==
  << g.status, g.board, g.player.score, g.player.lines, g.player.level,
     g.currentPiece, g.nextPiece, g.heldPiece >>

C4_ManagerStep ==
  \A id \in DOMAIN games :
    games[id].status = GAME_OVER =>
      id \in DOMAIN games' /\ Frozen(games'[id]) = Frozen(games[id])

C4_RoomStep ==
  \A id \in DOMAIN games :
    /\ games[id].status = GAME_OVER
    /\ HasRoomCopy(rooms, playerRooms, id)
    /\ RoomCopy(rooms, playerRooms, id).status = GAME_OVER
    => /\ HasRoomCopy(rooms', playerRooms', id)
       /\ Frozen(RoomCopy(rooms', playerRooms', id)) = Frozen(RoomCopy(rooms, playerRooms, id))

\* The session the game manager holds is frozen once it is game_over.
C4_ManagerCopyFrozen == [][C4_ManagerStep]_vars

\* C4: once a session is game_over, no player action, bot action, gravity
\* tick or garbage attack changes its status, board, score, lines, level or
\* current / next / held piece, in the game manager and in the room's copy.
C4_GameOverTerminal == [][C4_ManagerStep /\ C4_RoomStep]_vars

\* C5: every landing ends with the previous next piece as current piece, and
\* the status is game_over exactly when that piece is not a valid placement
\* on the post-clear board; then the gravity timer is cancelled in the same
\* step, and otherwise the status stays playing.
C5_GameOverTest ==
  [][Landing =>
       LET g == games'[last'.id] IN
       /\ g.currentPiece = games[last'.id].nextPiece
       /\ (g.status = GAME_OVER) <=> ~isValidMove(g.currentPiece, g.board)
       /\ g.status = GAME_OVER => last'.id \notin DOMAIN gameLoops'
       /\ g.status # GAME_OVER => g.status = PLAYING /\ last'.id \in DOMAIN gameLoops']_vars

\* A landing ended the game of the lander and its gravity timer is gone.
C5_Witness ==
  /\ last.landed
  /\ last.id \in DOMAIN games
  /\ games[last.id].status = GAME_OVER
  /\ ~isValidMove(games[last.id].currentPiece, games[last.id].board)
  /\ last.id \notin DOMAIN gameLoops

\* C6: score, lines and level of a session never decrease, and after every
\* step level = floor(lines / 10).
C6_Monotone ==
  [][\A id \in DOMAIN games \cap DOMAIN games' :
       /\ games'[id].player.score >= games[id].player.score
       /\ games'[id].player.lines >= games[id].player.lines
       /\ games'[id].player.level >= games[id].player.level
       /\ games'[id].player.level = games'[id].player.lines \div 10]_vars

\* A landing took a session from 9 to 10 lines and from level 0 to level 1.
C6_Witness ==
  /\ last.landed
  /\ last.linesCleared > 0
  /\ last.id \in DOMAIN games
  /\ games[last.id].player.lines >= 10
  /\ games[last.id].player.level = 1
  /\ games[last.id].player.score > 0

\* C7: no room ever has more than 4 members, humans and bots together.
C7_Capacity == \A r \in DOMAIN rooms : Len(rooms[r].players) <= 4

\* An add-bot request met a full room, which still has 4 members.
C7_Witness ==
  /\ last.op = "addBot"
  /\ last.room \in DOMAIN rooms
  /\ Len(rooms[last.room].players) = 4
  /\ last.bot \notin MemberIds(rooms[last.room])

C8_Refused ==
  /\ last'.op = "joinRoom"
  /\ \/ last'.room \notin DOMAIN rooms
     \/ Len(rooms[last'.room].players) >= 4

\* C8: a join-room request for an absent room or a room of 4 members is
\* acknowledged with false and changes neither the room table with its member
\* lists and session maps, nor the identity-to-room mapping, nor the sessions
\* and gravity timers.
C8_FailedJoin ==
  [][C8_Refused =>
       /\ last'.ack = "false"
       /\ UNCHANGED <<rooms, playerRooms, games, gameLoops>>]_vars

\* A join-room request was refused by a room of 4 members.
C8_Witness ==
  /\ last.op = "joinRoom"
  /\ last.ack = "false"
  /\ last.room \in DOMAIN rooms
  /\ Len(rooms[last.room].players) = 4
  /\ last.id \notin MemberIds(rooms[last.room])

\* C9: an add-bot request for a room of 4 members is acknowledged with false
\* and leaves no session, gravity timer, decision timer or registry entry of
\* the rejected bot.
C9_RejectedBot ==
  [][/\ last'.op = "addBot"
     /\ last'.room \in DOMAIN rooms
     /\ Len(rooms[last'.room].players) >= 4
     => /\ last'.ack = "false"
        /\ last'.bot \notin DOMAIN games'
        /\ last'.bot \notin DOMAIN gameLoops'
        /\ last'.bot \notin botTimers'
        /\ last'.bot \notin bots']_vars

\* The identity whose leaveRoom the step ran, NoId when it ran none.
Leaver ==
  CASE last'.op = "disconnect" -> last'.id
    [] last'.op = "removeBot" /\ last'.ack = "true" -> last'.bot
    [] OTHER -> NoId

C10_Step ==
  Leaver # NoId /\ getPlayerRoom(World, Leaver) # 0 =>
    LET id == Leaver
        r == getPlayerRoom(World, id)
        remaining == SelectSeq(rooms[r].players, LAMBDA p : p.id # id)
    IN /\ id \notin DOMAIN playerRooms'
       /\ IF Len(remaining) = 0
            THEN r \notin DOMAIN rooms'
            ELSE /\ r \in DOMAIN rooms'
                 /\ rooms'[r].players = remaining
                 /\ DOMAIN rooms'[r].gameStates = DOMAIN rooms[r].gameStates \ {id}
                 /\ \E i \in 1..Len(emitted') :
                      /\ emitted'[i].ev = "roomUpdate"
                      /\ emitted'[i].room = r
                      /\ emitted'[i].players = remaining

\* C10: leaveRoom(id) takes id out of its room's member list and session map
\* and out of the identity-to-room mapping; a room left without members is
\* deleted, any other room stays and a membership update is broadcast.
C10_LeaveRoom == [][C10_Step]_vars

\* A disconnect left a room with members behind, and the update went out.
C10_Witness ==
  /\ last.op = "disconnect"
  /\ last.room \in DOMAIN rooms
  /\ last.id \notin MemberIds(rooms[last.room])
  /\ last.id \notin DOMAIN rooms[last.room].gameStates
  /\ \E i \in 1..Len(emitted) : emitted[i].ev = "roomUpdate" /\ emitted[i].room = last.room

\* The members of a room that are no bots.
Humans(room) == MemberIds(room) \ bots

\* C11: when the only human of a room leaves it (here: disconnects), every
\* bot of that room is removed: no session, gravity timer, decision timer or
\* registry entry of such a bot is left.
C11_BotsLeaveWithOwner ==
  [][/\ last'.op = "disconnect"
     /\ last'.room \in DOMAIN rooms
     /\ Humans(rooms[last'.room]) = {last'.id}
     => \A b \in bots :
          b \in DOMAIN playerRooms /\ playerRooms[b] = last'.room =>
            /\ b \notin DOMAIN games'
            /\ b \notin DOMAIN gameLoops'
            /\ b \notin botTimers'
            /\ b \notin bots']_vars

C12_Teardown ==
  last'.op = "disconnect" =>
    last'.id \notin DOMAIN games' /\ last'.id \notin DOMAIN gameLoops'

C12_NoSession ==
  last'.op \in {"playerAction", "gameLoopTick"} /\ last'.id \notin DOMAIN games =>
    /\ UNCHANGED <<games, gameLoops, rooms, playerRooms, bots, botTimers>>
    /\ emitted' = <<>>

\* C12: a disconnect deletes the session and cancels the gravity timer in
\* one step, and a tick or player action handled for an identity without a
\* session changes no session and no room and emits nothing.
C12_Disconnect == [][C12_Teardown /\ C12_NoSession]_vars

\* A tick or action was handled for an identity after its disconnect.
C12_Witness ==
  /\ last.op \in {"playerAction", "gameLoopTick"}
  /\ last.id \in Conns \ sockets
  /\ last.id \notin DOMAIN games
  /\ last.id \notin DOMAIN gameLoops
  /\ emitted = <<>>

\* The step handled an action of the given type for a session that is playing.
Acted(type) ==
  /\ last'.op \in {"playerAction", "botDecision"}
  /\ last'.action = type
  /\ last'.id \in DOMAIN games
  /\ last'.id \in DOMAIN games'
  /\ games[last'.id].status = PLAYING
  /\ games[last'.id].currentPiece # NoPiece

\* C13: a hold with canHold true and nothing held makes the held piece the
\* former current kind, the current piece the former preview piece, the
\* preview a piece of the kind at the head of the queue, and canHold false.
C13_FirstHold ==
  [][/\ Acted(HOLD)
     /\ games[last'.id].canHold
     /\ games[last'.id].heldPiece = NoPiece
     => LET g == games[last'.id]
            h == games'[last'.id]
        IN /\ h.heldPiece.type = g.currentPiece.type
           /\ h.currentPiece = g.nextPiece
           /\ Len(g.pieceQueue) > 0 => h.nextPiece.type = Head(g.pieceQueue)
           /\ h.canHold = FALSE]_vars

\* A hold that takes effect spends the allowance.
C14_Spent ==
  Acted(HOLD) /\ games[last'.id].canHold => ~games'[last'.id].canHold

\* A spent allowance comes back only with a landing of that session's piece.
C14_Restored ==
  \A id \in DOMAIN games \cap DOMAIN games' :
    ~games[id].canHold /\ games'[id].canHold => last'.landed /\ last'.id = id

\* A hold received while the allowance is spent leaves the session as it was.
C14_Refused ==
  Acted(HOLD) /\ ~games[last'.id].canHold => games'[last'.id] = games[last'.id]

\* C14: after a hold takes effect canHold stays false until the next landing
\* of that session sets it back to true, and a hold received while canHold is
\* false changes nothing in the session, so at most one hold takes effect
\* between two consecutive landings.
C14_OneHoldPerPiece == [][C14_Spent /\ C14_Restored /\ C14_Refused]_vars

\* A playing session has just refused a hold: its allowance is spent and the
\* handler returned without emitting.
C14_Witness ==
  /\ last.op = "playerAction"
  /\ last.action = HOLD
  /\ last.id \in DOMAIN games
  /\ games[last.id].status = PLAYING
  /\ ~games[last.id].canHold
  /\ games[last.id].heldPiece # NoPiece
  /\ emitted = <<>>

\* The piece turned a quarter and shifted by each offset rotatePiece tries.
Turned(piece) ==
  { movePiece([piece EXCEPT !.shape = rotateMatrix(piece.shape),
                            !.rotation = (piece.rotation + 1) % 4], d[1], d[2]) :
      d \in {<<0, 0>>, <<-1, 0>>, <<1, 0>>, <<0, -1>>, <<-2, 0>>, <<2, 0>>} }

\* The action of the step cannot be applied to the session's piece.
Blocked(id) ==
  LET piece == games[id].currentPiece
      board == games[id].board
  IN \/ last'.action = MOVE_LEFT /\ ~isValidMove(movePiece(piece, -1, 0), board)
     \/ last'.action = MOVE_RIGHT /\ ~isValidMove(movePiece(piece, 1, 0), board)
     \/ last'.action = ROTATE /\ \A p \in Turned(piece) : ~isValidMove(p, board)

\* C15: a move_left or move_right whose translated piece is not a valid
\* placement, and a rotate for which no candidate is valid, leave the state
\* unchanged and emit no event, neither to the player nor to room peers.
C15_Ignored ==
  [][/\ last'.op = "playerAction"
     /\ \E type \in {MOVE_LEFT, MOVE_RIGHT, ROTATE} : Acted(type)
     /\ Blocked(last'.id)
     => games' = games /\ rooms' = rooms /\ emitted' = <<>>]_vars

\* The step only moved the session's piece one row down.
Translated(id) ==
  /\ games'[id] = [games[id] EXCEPT !.currentPiece = movePiece(games[id].currentPiece, 0, 1)]
  /\ ~last'.landed

\* The step landed the session's piece at the given placement.
LandsAt(id, piece) ==
  /\ last'.landed
  /\ games'[id].board = clearLines(mergePieceToBoard(piece, games[id].board)).newBoard

\* C16 as stated: a move_down whose translated piece is a valid placement
\* only translates the piece one row (board, score, lines, next piece, held
\* piece and queue unchanged, no landing in that step); one whose translated
\* piece is not valid lands the piece at its current position.
C16_MoveDown ==
  [][Acted(MOVE_DOWN) =>
       LET piece == games[last'.id].currentPiece
       IN IF isValidMove(movePiece(piece, 0, 1), games[last'.id].board)
            THEN Translated(last'.id)
            ELSE LandsAt(last'.id, piece)]_vars

\* C16 amended: a move_down whose translated piece is valid only translates
\* the piece when it could move a further row; when it could not, the piece
\* is landed in the same step at the translated position. A move_down whose
\* translated piece is not valid lands the piece at its current position.
C16_MoveDownTouch ==
  [][Acted(MOVE_DOWN) =>
       LET piece == games[last'.id].currentPiece
           board == games[last'.id].board
       IN IF ~isValidMove(movePiece(piece, 0, 1), board) THEN LandsAt(last'.id, piece)
          ELSE IF isValidMove(movePiece(piece, 0, 2), board) THEN Translated(last'.id)
          ELSE LandsAt(last'.id, movePiece(piece, 0, 1))]_vars

\* The first move of a recorded game was a move_down that landed the upright
\* I in the well and cleared four lines: only the game with the piece one row
\* above the floor of the well offers that, and the piece was not resting.
C16_Witness ==
  /\ movesLeft = MaxMoves - 1
  /\ last.op = "playerAction"
  /\ last.action = MOVE_DOWN
  /\ last.landed
  /\ last.linesCleared = 4

\* The piece at row y, x and rotation kept.
AtRow(piece, y) == [piece EXCEPT !.position.y = y]

\* Row y is the lowest the piece reaches from where it is, one valid row at a time.
LowestRow(piece, board, y) ==
  /\ \A r \in (piece.position.y + 1)..y : isValidMove(AtRow(piece, r), board)
  /\ ~isValidMove(AtRow(piece, y + 1), board)

\* C17: a drop moves the current piece, x and rotation kept, to the lowest row
\* reachable by repeated valid one-row downward translations and lands it
\* there within the same step: the piece merged into the board sits at that row.
C17_HardDrop ==
  [][Acted(DROP) =>
       LET piece == games[last'.id].currentPiece
       IN \E y \in piece.position.y..BOARD_HEIGHT :
            /\ LowestRow(piece, games[last'.id].board, y)
            /\ LandsAt(last'.id, AtRow(piece, y))]_vars

\* The first move of a recorded game was a drop that took the piece from the
\* top of the board to the floor of the well and completed lines there.
C17_Witness ==
  /\ movesLeft = MaxMoves - 1
  /\ last.op = "playerAction"
  /\ last.action = DROP
  /\ last.landed
  /\ last.linesCleared >= 3

\* Every occupied cell of the piece lies in columns 0..9 and above the floor,
\* and over an empty board cell unless it is above the top edge.
ValidPlacement(piece, board) ==
  \A y \in 1..Len(piece.shape) : \A x \in 1..Len(piece.shape[y]) :
    piece.shape[y][x] # 0 =>
      LET col == piece.position.x + x - 1
          row == piece.position.y + y - 1
      IN /\ col \in 0..(BOARD_WIDTH - 1)
         /\ row < BOARD_HEIGHT
         /\ row >= 0 => board[row][col] = 0

\* C18: isValidMove(piece, board) is true if and only if every occupied cell
\* of the piece has a column in [0, 10) and a row < 20, negative rows being
\* permitted, and the board cell under it is 0 when its row is >= 0.
C18_IsValidMove ==
  probe.fn = "isValidMove" => (probe.valid <=> ValidPlacement(probe.piece, probe.board))

\* The candidates of a rotation in the order they are tried: in place, left 1,
\* right 1, up 1, left 2, right 2.
Candidates(piece) ==
  LET turned == [piece EXCEPT !.shape = Turn(piece.shape, 1),
                              !.rotation = (piece.rotation + 1) % 4]
  IN << turned, movePiece(turned, -1, 0), movePiece(turned, 1, 0),
        movePiece(turned, 0, -1), movePiece(turned, -2, 0), movePiece(turned, 2, 0) >>

\* The candidates isValidMove accepts.
Fitting(piece, board) ==
  {i \in DOMAIN Candidates(piece) : isValidMove(Candidates(piece)[i], board)}

CompleteRows(board) ==
  {y \in DOMAIN board : \A x \in DOMAIN board[y] : board[y][x] # 0}

\* C20: clearLines returns linesCleared equal to the number of complete rows
\* of its input and a board of the same dimensions whose top linesCleared rows
\* are empty, followed by the input's incomplete rows in their original order;
\* the result has no complete row, also when complete rows are adjacent or
\* row 0 is complete, and the input board is not modified.
C20_ClearLines ==
  [][probe'.fn = "clearLines" =>
       LET board == probe.board
           full == CompleteRows(board)
           out == probe'.cleared
       IN /\ probe'.board = board
          /\ out.linesCleared = Cardinality(full)
          /\ DOMAIN out.newBoard = DOMAIN board
          /\ \A y \in DOMAIN board : DOMAIN out.newBoard[y] = DOMAIN board[y]
          /\ \A y \in 0..(out.linesCleared - 1) : out.newBoard[y] = EmptyRow
          /\ \A y \in DOMAIN board \ full :
               out.newBoard[Cardinality(full) + Cardinality({q \in DOMAIN board \ full : q < y})]
                 = board[y]
          /\ CompleteRows(out.newBoard) = {}]_vars

\* clearLines has answered for a board whose rows 0 and 1 and rows 18 and 19
\* are complete, with partial rows between them.
C20_Witness ==
  /\ probe.fn = "clearLines"
  /\ {0, 1, 18, 19} \subseteq CompleteRows(probe.board)
  /\ CompleteRows(probe.board) # DOMAIN probe.board
  /\ probe.cleared.linesCleared = Cardinality(CompleteRows(probe.board))
  /\ probe.cleared.newBoard[BOARD_HEIGHT - 1] = probe.board[BOARD_HEIGHT - 3]

\* The numeric id of each kind.
KindId == [I |-> 1, O |-> 2, T |-> 3, L |-> 4, J |-> 5, S |-> 6, Z |-> 7]

\* The board cells under the occupied cells of the piece's mask.
Footprint(piece) ==
  { <<piece.position.y + y - 1, piece.position.x + x - 1>> :
      <<y, x>> \in { c \in (1..Len(piece.shape)) \X (1..Len(piece.shape)) :
                       piece.shape[c[1]][c[2]] # 0 } }

\* C21: mergePieceToBoard returns a board in which exactly the in-bounds cells
\* under occupied cells of the piece's mask hold the kind's numeric id (I=1,
\* O=2, T=3, L=4, J=5, S=6, Z=7) and every other cell equals the input cell;
\* occupied cells outside the board are dropped; the input is not modified.
C21_Merge ==
  [][probe'.fn = "mergePieceToBoard" =>
       /\ probe'.board = probe.board
       /\ probe'.piece = probe.piece
       /\ DOMAIN probe'.merged = DOMAIN probe.board
       /\ \A cells \in {Footprint(probe.piece)} : \A by \in DOMAIN probe.board :
            /\ DOMAIN probe'.merged[by] = DOMAIN probe.board[by]
            /\ \A bx \in DOMAIN probe.board[by] :
                 probe'.merged[by][bx] =
                   IF <<by, bx>> \in cells
                     THEN KindId[probe.piece.type]
                     ELSE probe.board[by][bx]]_vars

\* A Z piece reaching over the right wall was merged over filled cells of the
\* shaft board: its cells inside the board are stored as 7, the rest dropped.
C21_Witness ==
  /\ probe.fn = "mergePieceToBoard"
  /\ probe.piece.type = "Z"
  /\ probe.board = ShaftBoard
  /\ \E c \in Footprint(probe.piece) : c[2] >= BOARD_WIDTH
  /\ \E c \in Footprint(probe.piece) :
       /\ c[1] \in 0..(BOARD_HEIGHT - 1) /\ c[2] \in 0..(BOARD_WIDTH - 1)
       /\ probe.board[c[1]][c[2]] = 8
       /\ probe.merged[c[1]][c[2]] = 7

\* C22: for 0 <= n <= 20, addGarbageLines(board, n) returns a board of the
\* original height in which rows 0..(19-n) equal input rows n..19 in order and
\* each of the bottom n rows has exactly one cell equal to 0 and every other
\* cell equal to 8; the input board is not modified.
C22_AddGarbageLines ==
  [][probe'.fn = "addGarbageLines" /\ probe.lineCount \in 0..20 =>
       LET n == probe.lineCount
           out == probe'.garbage
       IN /\ probe'.board = probe.board
          /\ DOMAIN out = DOMAIN probe.board
          /\ \A y \in 0..(19 - n) : out[y] = probe.board[y + n]
          /\ \A y \in (20 - n)..19 :
               /\ DOMAIN out[y] = 0..(BOARD_WIDTH - 1)
               /\ Cardinality({x \in DOMAIN out[y] : out[y][x] = 0}) = 1
               /\ \A x \in DOMAIN out[y] : out[y][x] \in {0, 8}]_vars

\* Three garbage lines with holes in different columns were pushed under a
\* board of partial rows: its row 3 is now the top row.
C22_Witness ==
  /\ probe.fn = "addGarbageLines"
  /\ probe.lineCount = 3
  /\ probe.board[3] = PartialRow(3)
  /\ probe.garbage[0] = PartialRow(3)
  /\ probe.garbage[BOARD_HEIGHT - 1] # probe.garbage[BOARD_HEIGHT - 2]

\* The seven spawns from the given one on hold each kind exactly once.
EachKindOnce(spawns, first) ==
  \A kind \in TetrominoType :
    Cardinality({i \in first..(first + 6) : spawns[i] = kind}) = 1

\* C23 as stated: from an empty queue, threading the updated queue through
\* successive spawns, any 7 consecutive spawns hold each kind exactly once.
C23_AnyWindow ==
  \A first \in 1..(Len(probe.spawned) - 6) : EachKindOnce(probe.spawned, first)

\* C23 amended: from an empty queue, the spawns 7k+1 .. 7k+7 (the spawns of
\* one bag) hold each of the 7 kinds exactly once, for every k.
C23_BagWindow ==
  \A first \in 1..(Len(probe.spawned) - 6) :
    first % 7 = 1 => EachKindOnce(probe.spawned, first)

\* Fourteen spawns or more have been made and the second bag came in another
\* order than the first.
C23_Witness ==
  /\ probe.fn = "spawnPiece"
  /\ Len(probe.spawned) >= 14
  /\ SubSeq(probe.spawned, 1, 7) # SubSeq(probe.spawned, 8, 14)
  /\ EachKindOnce(probe.spawned, 8)

\* The level -> drop interval table, index = level, last entry beyond it.
Curve ==
  <<800, 717, 633, 550, 467, 383, 300, 217, 133, 100,
    83, 83, 83, 67, 67, 67, 50, 50, 50, 33, 33>>

CurveAt(level) == Curve[(IF level < 20 THEN level ELSE 20) + 1]

\* After a landing the session's interval is the table's entry for its level
\* and its live gravity timer, which a playing session has, runs at that period.
C24_AfterLanding ==
  Landing =>
    LET g == games'[last'.id]
    IN /\ g.dropInterval = CurveAt(g.player.level)
       /\ g.status = PLAYING => last'.id \in DOMAIN gameLoops'
       /\ last'.id \in DOMAIN gameLoops' => gameLoops'[last'.id] = g.dropInterval

\* C24: in every state after a landing the session's dropInterval equals
\* curve[min(level, 20)] and the period of its active gravity timer equals
\* dropInterval; a level increase that changes the interval replaces the
\* timer by one with the new period in the same step.
C24_SpeedCurve ==
  [][/\ C24_AfterLanding
     /\ \A level \in 0..25 : getDropInterval(level) = CurveAt(level)]_vars

\* The first move of a recorded game landed the piece that completed the
\* tenth line: the session is at level 1 and its timer runs at 717 ms.
C24_Witness ==
  /\ movesLeft = MaxMoves - 1
  /\ last.landed
  /\ last.id \in DOMAIN games
  /\ games[last.id].player.level = 1
  /\ games[last.id].player.lines = 10
  /\ last.id \in DOMAIN gameLoops
  /\ gameLoops[last.id] = 717

\* The requester of the step is a member of the room it names and that room
\* has at least 2 members.
C25_MayStart ==
  /\ last'.room \in DOMAIN rooms
  /\ last'.id \in MemberIds(rooms[last'.room])
  /\ Len(rooms[last'.room].players) >= 2

GameStarting == \E i \in DOMAIN emitted' : emitted'[i].ev = "gameStarting"

\* C25: a start-game request is acknowledged with true and sets the room's
\* active flag only if the requester is a member of the named room and the
\* room has at least 2 members; otherwise it is acknowledged with false, the
\* active flag is unchanged and no game-starting event is emitted.
C25_StartGame ==
  [][last'.op = "startGame" =>
       /\ last'.ack \in {"true", "false"}
       /\ last'.ack = "true" =>
            /\ C25_MayStart
            /\ last'.room \in DOMAIN rooms'
            /\ rooms'[last'.room].isActive
       /\ ~C25_MayStart => last'.ack = "false"
       /\ last'.ack = "false" =>
            /\ \A r \in DOMAIN rooms :
                 r \in DOMAIN rooms' /\ rooms'[r].isActive = rooms[r].isActive
            /\ ~GameStarting]_vars

\* A member asked to start the room it sits in alone and was refused.
C25_Witness ==
  /\ last.op = "startGame"
  /\ last.ack = "false"
  /\ last.room \in DOMAIN rooms
  /\ MemberIds(rooms[last.room]) = {last.id}
  /\ ~rooms[last.room].isActive

\* A board of 20 rows of 10 cells with values in 0..8.
WellFormed(board) ==
  /\ DOMAIN board = 0..19
  /\ \A y \in DOMAIN board :
       /\ DOMAIN board[y] = 0..9
       /\ \A x \in DOMAIN board[y] : board[y][x] \in 0..8

\* C26: in every reachable state each session's board, in the game manager
\* and in its room, has exactly 20 rows of exactly 10 cells with every value
\* in 0..8, after any sequence of merges, line clears and garbage injections.
C26_BoardShape ==
  /\ \A id \in DOMAIN games : WellFormed(games[id].board)
  /\ \A r \in DOMAIN rooms : \A id \in DOMAIN rooms[r].gameStates :
       WellFormed(rooms[r].gameStates[id].board)

\* A landing has merged a piece and cleared lines, and a board of its room
\* has received garbage rows.
C26_Witness ==
  /\ last.landed
  /\ last.linesCleared >= 2
  /\ last.id \in DOMAIN games
  /\ \E y \in 0..19 : \E x \in 0..9 : games[last.id].board[y][x] \in 1..7
  /\ \E r \in DOMAIN rooms : \E id \in DOMAIN rooms[r].gameStates :
       GarbageRows(rooms[r].gameStates[id].board) > 0

\* The step is a gravity tick or an action of the session of last'.id that is
\* not a garbage attack (a landing that clears at least 2 lines).
OwnStep ==
  /\ last'.op \in {"playerAction", "gameLoopTick", "botDecision"}
  /\ ~(last'.landed /\ last'.linesCleared >= 2)

\* C27: a gravity tick or action applied to a session that is not a garbage
\* attack leaves the state of every other session, in the same room and in
\* other rooms, in the game manager and in the rooms' copies, unchanged.
C27_OthersUntouched ==
  [][OwnStep =>
       /\ \A b \in DOMAIN games \ {last'.id} :
            b \in DOMAIN games' /\ games'[b] = games[b]
       /\ \A r \in DOMAIN rooms : \A b \in DOMAIN rooms[r].gameStates \ {last'.id} :
            /\ r \in DOMAIN rooms'
            /\ b \in DOMAIN rooms'[r].gameStates
            /\ rooms'[r].gameStates[b] = rooms[r].gameStates[b]]_vars

\* A piece of one session has landed and cleared a single line in a room
\* that holds the copies of two other sessions.
C27_Witness ==
  /\ last.landed
  /\ last.linesCleared = 1
  /\ last.id \in DOMAIN playerRooms
  /\ playerRooms[last.id] \in DOMAIN rooms
  /\ Cardinality(DOMAIN rooms[playerRooms[last.id]].gameStates \ {last.id}) >= 2

\* The rotation-state table: the masks of each kind in rotation order.
SHAPES ==
  [I |-> << << <<0, 0, 0, 0>>, <<1, 1, 1, 1>>, <<0, 0, 0, 0>>, <<0, 0, 0, 0>> >>,
            << <<0, 0, 1, 0>>, <<0, 0, 1, 0>>, <<0, 0, 1, 0>>, <<0, 0, 1, 0>> >>,
            << <<0, 0, 0, 0>>, <<0, 0, 0, 0>>, <<1, 1, 1, 1>>, <<0, 0, 0, 0>> >>,
            << <<0, 1, 0, 0>>, <<0, 1, 0, 0>>, <<0, 1, 0, 0>>, <<0, 1, 0, 0>> >> >>,
   O |-> << << <<1, 1>>, <<1, 1>> >> >>,
   T |-> << << <<0, 1, 0>>, <<1, 1, 1>>, <<0, 0, 0>> >>,
            << <<0, 1, 0>>, <<0, 1, 1>>, <<0, 1, 0>> >>,
            << <<0, 0, 0>>, <<1, 1, 1>>, <<0, 1, 0>> >>,
            << <<0, 1, 0>>, <<1, 1, 0>>, <<0, 1, 0>> >> >>,
   S |-> << << <<0, 1, 1>>, <<1, 1, 0>>, <<0, 0, 0>> >>,
            << <<0, 1, 0>>, <<0, 1, 1>>, <<0, 0, 1>> >>,
            << <<0, 0, 0>>, <<0, 1, 1>>, <<1, 1, 0>> >>,
            << <<1, 0, 0>>, <<1, 1, 0>>, <<0, 1, 0>> >> >>,
   Z |-> << << <<1, 1, 0>>, <<0, 1, 1>>, <<0, 0, 0>> >>,
            << <<0, 0, 1>>, <<0, 1, 1>>, <<0, 1, 0>> >>,
            << <<0, 0, 0>>, <<1, 1, 0>>, <<0, 1, 1>> >>,
            << <<0, 1, 0>>, <<1, 1, 0>>, <<1, 0, 0>> >> >>,
   J |-> << << <<1, 0, 0>>, <<1, 1, 1>>, <<0, 0, 0>> >>,
            << <<0, 1, 1>>, <<0, 1, 0>>, <<0, 1, 0>> >>,
            << <<0, 0, 0>>, <<1, 1, 1>>, <<0, 0, 1>> >>,
            << <<0, 1, 0>>, <<0, 1, 0>>, <<1, 1, 0>> >> >>,
   L |-> << << <<0, 0, 1>>, <<1, 1, 1>>, <<0, 0, 0>> >>,
            << <<0, 1, 0>>, <<0, 1, 0>>, <<0, 1, 1>> >>,
            << <<0, 0, 0>>, <<1, 1, 1>>, <<1, 0, 0>> >>,
            << <<1, 1, 0>>, <<0, 1, 0>>, <<0, 1, 0>> >> >>]

\* The table's mask for a kind and a rotation index counted mod 4 (the
\* square has a single state).
TableMask(kind, rotation) == SHAPES[kind][((rotation % 4) % Len(SHAPES[kind])) + 1]

\* The piece, if there is one, carries the table's mask for its kind and rotation.
OnTable(piece) ==
  piece # NoPiece =>
    /\ piece.rotation \in 0..3
    /\ piece.shape = TableMask(piece.type, piece.rotation)

PiecesOnTable(g) ==
  /\ "currentPiece" \in DOMAIN g => OnTable(g.currentPiece)
  /\ "nextPiece" \in DOMAIN g => OnTable(g.nextPiece)
  /\ "heldPiece" \in DOMAIN g => OnTable(g.heldPiece)

\* A spawned piece, and a piece with a table mask turned once more in free
\* space, carry the table's mask: the step every longer sequence repeats.
TableStep ==
  \A kind \in TetrominoType :
    /\ OnTable(createPiece(kind))
    /\ \A r \in 0..3 :
         OnTable(rotatePiece([type |-> kind, shape |-> TableMask(kind, r),
                              position |-> [x |-> 3, y |-> 5], rotation |-> r],
                             createEmptyBoard))

\* C28: every piece of a session, after any sequence of spawn, move, rotate
\* and hold, carries the mask the rotation-state table gives for its kind and
\* rotation index mod 4; a rotated O piece keeps its mask.
C28_MaskOnTable ==
  /\ \A id \in DOMAIN games : PiecesOnTable(games[id])
  /\ \A r \in DOMAIN rooms : \A id \in DOMAIN rooms[r].gameStates :
       PiecesOnTable(rooms[r].gameStates[id])
  /\ TableStep

\* A rotate has just been applied in a session whose current piece is now in
\* its fourth rotation state.
C28_Witness ==
  /\ last.action = ROTATE
  /\ last.id \in DOMAIN games
  /\ games[last.id].currentPiece # NoPiece
  /\ games[last.id].currentPiece.rotation = 3
  /\ games[last.id].currentPiece.shape = SHAPES[games[last.id].currentPiece.type][4]

\* Two GameState objects agree on a field when both carry it with one value.
SameField(a, b, f) == f \in DOMAIN a /\ f \in DOMAIN b /\ a[f] = b[f]

Agrees(roomState, gameState) ==
  /\ \A f \in {"board", "currentPiece", "nextPiece", "status"} :
       SameField(roomState, gameState, f)
  /\ "player" \in DOMAIN roomState
  /\ \A f \in {"score", "lines", "level"} :
       SameField(roomState.player, gameState.player, f)

\* C29: after every handler, the state the room stores for a member agrees
\* with the game manager's session of that identity on board, current piece,
\* next piece, status and score, lines and level.
C29_StoresAgree ==
  \A id \in DOMAIN games :
    HasRoomCopy(rooms, playerRooms, id) => Agrees(RoomCopy(rooms, playerRooms, id), games[id])

\* Every occupied cell of the piece is inside the board and over an empty cell.
InBoundsAndFree(piece, board) ==
  \A y \in 1..Len(piece.shape) : \A x \in 1..Len(piece.shape[y]) :
    piece.shape[y][x] # 0 =>
      LET col == piece.position.x + x - 1
          row == piece.position.y + y - 1
      IN /\ col \in 0..(BOARD_WIDTH - 1)
         /\ row \in 0..(BOARD_HEIGHT - 1)
         /\ board[row][col] = 0

PieceFits(g) ==
  "status" \in DOMAIN g /\ g.status = PLAYING /\ g.currentPiece # NoPiece
    => InBoundsAndFree(g.currentPiece, g.board)

\* C30: between handlers, the current piece of every session whose status is
\* playing is a valid placement on that session's board: every occupied cell
\* in bounds and on an empty cell.
C30_PieceFits == \A id \in DOMAIN games : PieceFits(games[id])

\* The seats of an identity: the places <<room, index>> of the member lists
\* that carry it.
Seats(id) ==
  {<<r, i>> \in (DOMAIN rooms) \X (1..MAX_PLAYERS_PER_ROOM) :
     i <= Len(rooms[r].players) /\ rooms[r].players[i].id = id}

SeatedIds == UNION {MemberIds(rooms[r]) : r \in DOMAIN rooms}

\* C31: an identity is seated at most once, in at most one room, and the
\* identity-to-room mapping names exactly that room; an identity that has
\* disconnected is in no room's member list or session map.
C31_OneSeat ==
  /\ \A id \in SeatedIds \cup DOMAIN playerRooms :
       /\ Cardinality(Seats(id)) <= 1
       /\ \A s \in Seats(id) : id \in DOMAIN playerRooms /\ playerRooms[id] = s[1]
       /\ id \in DOMAIN playerRooms => \E s \in Seats(id) : s[1] = playerRooms[id]
  /\ \A c \in Conns \ sockets :
       \A r \in DOMAIN rooms :
         c \notin MemberIds(rooms[r]) /\ c \notin DOMAIN rooms[r].gameStates

\* The preview of a session is replaced only as it becomes the current piece.
C32_PlayedWhenReplaced ==
  \A id \in DOMAIN games \cap DOMAIN games' :
    games'[id].nextPiece # games[id].nextPiece
      => games'[id].currentPiece = games[id].nextPiece

\* A hold that swaps in the held piece leaves the preview and the queue alone.
C32_SwapKeepsPreview ==
  /\ Acted(HOLD)
  /\ games[last'.id].canHold
  /\ games[last'.id].heldPiece # NoPiece
  => /\ games'[last'.id].nextPiece = games[last'.id].nextPiece
     /\ games'[last'.id].pieceQueue = games[last'.id].pieceQueue

\* C32: the preview piece of a session is replaced only in the step in which
\* it becomes the current piece, so no previewed kind is discarded unplayed;
\* a hold that swaps in an already held piece leaves the next piece and the
\* queue unchanged.
C32_PreviewPlayed == [][C32_PlayedWhenReplaced /\ C32_SwapKeepsPreview]_vars

\* The queue a draw is made from: refilled at the back with one permutation of
\* the seven kinds when at most one entry is left.
Refilled(queue) ==
  IF Len(queue) <= 1 THEN {queue \o bag : bag \in Bags} ELSE {queue}

\* A landing of the session's piece has just left the session playing.
LandedOn(id) ==
  /\ last'.landed
  /\ last'.id = id
  /\ id \in DOMAIN games
  /\ id \in DOMAIN games'
  /\ games'[id].status = PLAYING

\* C33: a landing that does not end the game makes the previous next piece
\* the current piece at its spawn anchor with rotation 0, makes next a piece
\* of the kind at the head of the queue (refilled first if at most 1 entry is
\* left), removes that kind from the queue, and sets canHold to true.
C33_Advance ==
  [][\A id \in DOMAIN games :
       LandedOn(id) =>
         /\ games'[id].currentPiece = games[id].nextPiece
         /\ games'[id].currentPiece = createPiece(games[id].nextPiece.type)
         /\ \E q \in Refilled(games[id].pieceQueue) :
              /\ games'[id].nextPiece = createPiece(Head(q))
              /\ games'[id].pieceQueue = Tail(q)
         /\ games'[id].canHold]_vars

\* A landing has left the session playing with a piece in the hold slot and
\* a queue of seven: the one entry that was left and a whole new permutation
\* less the kind drawn.
C33_Witness ==
  /\ last.landed
  /\ last.id \in DOMAIN games
  /\ games[last.id].status = PLAYING
  /\ games[last.id].canHold
  /\ games[last.id].heldPiece # NoPiece
  /\ Len(games[last.id].pieceQueue) = 7

\* The gravity timer of a playing session has fired.
Ticked ==
  /\ last'.op = "gameLoopTick"
  /\ last'.id \in DOMAIN games
  /\ last'.id \in DOMAIN games'
  /\ games[last'.id].status = PLAYING
  /\ games[last'.id].currentPiece # NoPiece

\* C34: a gravity tick on a playing session moves the current piece down by
\* exactly one row when that position is valid, x, rotation, board, score and
\* the other pieces unchanged, and lands the piece where it is when it is not.
C34_Tick ==
  [][Ticked =>
       LET piece == games[last'.id].currentPiece
       IN IF isValidMove(movePiece(piece, 0, 1), games[last'.id].board)
            THEN Translated(last'.id)
            ELSE LandsAt(last'.id, piece)]_vars

\* A tick has lowered a piece onto the stack without landing it: the piece
\* rests, one more row down is not valid, and the session plays on.
C34_Witness ==
  /\ last.op = "gameLoopTick"
  /\ ~last.landed
  /\ movesLeft = MaxMoves - 1
  /\ last.id \in DOMAIN games
  /\ games[last.id].status = PLAYING
  /\ games[last.id].currentPiece.position.y > 0
  /\ ~isValidMove(movePiece(games[last.id].currentPiece, 0, 1), games[last.id].board)

\* The identities whose session is being played.
PlayingIds == {id \in DOMAIN games : games[id].status = PLAYING}

C36_IdleFiring ==
  /\ last'.op = "botDecision"
  /\ last'.id \notin PlayingIds
  => /\ games' = games
     /\ rooms' = rooms
     /\ last'.id \notin botTimers'

\* A served remove-bot leaves the bot no decision timer.
C36_Removed ==
  last'.op = "removeBot" /\ last'.ack = "true" => last'.bot \notin botTimers'

\* C36: a bot's decision timer injects actions only while the bot's session
\* exists and is playing: remove-bot cancels it, a firing after the session
\* has reached game_over cancels it and changes no session, and no timer is
\* live for a bot that is not registered or has no session.
C36_BotTimer ==
  [][/\ C36_IdleFiring
     /\ C36_Removed
     /\ botTimers' \subseteq bots' \cap DOMAIN games']_vars

\* The decision timer of a bot whose game is over has fired and is cancelled.
C36_Witness ==
  /\ last.op = "botDecision"
  /\ last.id \in DOMAIN games
  /\ games[last.id].status = GAME_OVER
  /\ last.id \notin botTimers

\* The cells of a board outside the columns a piece occupies where it spawns.
OutsideSpawnColumns(board) ==
  {<<y, x>> \in (DOMAIN board) \X (0..(BOARD_WIDTH - 1)) : x \notin 3..6 /\ board[y][x] # 0}

\* Nothing has been laid outside the spawn columns and no row was completed.
Untouched ==
  \A id \in DOMAIN games :
    /\ OutsideSpawnColumns(games[id].board) = {}
    /\ games[id].player.lines = 0
    /\ games[id].player.score = 0

AllOver == \A id \in DOMAIN games : games[id].status = GAME_OVER

\* C37: with a fair gravity timer and no player or bot action and no garbage,
\* a playing session eventually reaches game_over, its pieces stacking in the
\* spawn columns without ever completing a row.
C37_GravityEndsGame == []Untouched /\ <>AllOver

\* A tick has landed the last piece: the game is over, no row was completed.
C37_Witness ==
  /\ last.op = "gameLoopTick"
  /\ last.landed
  /\ SocketA \in DOMAIN games
  /\ games[SocketA].status = GAME_OVER
  /\ games[SocketA].player.lines = 0
  /\ gameLoops = <<>>

\* The named bot is seated in the room of the requester.
InOwnRoom(c, b) ==
  getPlayerRoom(World, c) # 0 /\ b \in MemberIds(rooms[getPlayerRoom(World, c)])

\* C38: a remove-bot request succeeds only if the named bot is a member of
\* the requester's own room; one that names a bot of another room is
\* acknowledged with false and leaves that bot's session, timers and room
\* membership unchanged.
C38_OwnBotOnly ==
  [][last'.op = "removeBot" /\ ~InOwnRoom(last'.id, last'.bot)
       => /\ last'.ack = "false"
          /\ UNCHANGED <<games, gameLoops, intervals, bots, botTimers, rooms, playerRooms>>]_vars

\* The rows of a board that carry garbage cells.
GarbageRowsOf(board) == {y \in DOMAIN board : \E x \in DOMAIN board[y] : board[y][x] = 8}

\* C39: between handlers no session board, in the game manager or in its
\* room, contains a complete row: a landing removes every complete row before
\* it finishes, and an injected garbage row has an empty cell.
C39_NoCompleteRow ==
  /\ \A id \in DOMAIN games : CompleteRows(games[id].board) = {}
  /\ \A r \in DOMAIN rooms : \A id \in DOMAIN rooms[r].gameStates :
       CompleteRows(rooms[r].gameStates[id].board) = {}

\* A landing has cleared four rows of its session and put garbage rows on
\* another board of the room.
C39_Witness ==
  /\ last.landed
  /\ last.linesCleared = 4
  /\ \E r \in DOMAIN rooms : \E id \in DOMAIN rooms[r].gameStates :
       /\ id # last.id
       /\ GarbageRowsOf(rooms[r].gameStates[id].board) # {}

\* The spawn of the step took the head of the queue, after one whole
\* permutation of the seven kinds was put behind the entries left if and only
\* if at most one entry was left.
C40_RefillStep ==
  probe'.fn = "spawnPiece" /\ Len(probe'.spawned) = Len(probe.spawned) + 1 =>
    LET drawn == <<probe'.spawned[Len(probe'.spawned)]>> \o probe'.queue
        left == Len(probe.queue)
    IN IF left <= 1
         THEN /\ Len(drawn) = left + 7
              /\ SubSeq(drawn, 1, left) = probe.queue
              /\ EachKindOnce(drawn, left + 1)
         ELSE drawn = probe.queue

\* The spawns so far, cut into the blocks 1-7, 8-14, ..., hold every kind
\* exactly once in each whole block.
C40_Blocks ==
  \A k \in 0..(Len(probe.spawned) \div 7) :
    7 * k + 7 <= Len(probe.spawned) => EachKindOnce(probe.spawned, 7 * k + 1)

\* C40: from an empty queue, threading the updated queue through successive
\* spawns, each block of 7 spawns (1-7, 8-14, ...) has every kind exactly
\* once; a refill happens only when at most 1 entry remains and appends one
\* whole permutation of the seven kinds behind the remaining entries.
C40_BlocksOfSeven == [][C40_RefillStep /\ C40_Blocks']_vars

\* The fourteenth spawn took the entry left of the second permutation after a
\* third was put behind it: seven entries are queued.
C40_Witness ==
  /\ probe.fn = "spawnPiece"
  /\ Len(probe.spawned) = 14
  /\ Len(probe.queue) = 7
  /\ EachKindOnce(probe.spawned, 1)

====
